---- MODULE Spec2Model ----
(***************************************************************************)
(* A model of the Gemini AI editor plugin: the Async API Client (one       *)
(* background thread per request), the command layer that validates the    *)
(* setup, starts the client and polls it from the UI thread, and the two   *)
(* buffer mutation commands.                                               *)
(*                                                                         *)
(* Conventions.  A Python value that may be None, and a dict key that may  *)
(* be missing, is a sequence of length at most one: <<>> is None/missing   *)
(* and <<v>> is the value v.  A text (buffer content, selected text, the   *)
(* model's answer) is a sequence of characters.  A message built with      *)
(* str.format is the sequence of its segments, the literal pieces and the  *)
(* formatted arguments in order; it is the empty string exactly when every *)
(* segment is empty.                                                       *)
(***************************************************************************)
EXTENDS Integers, Sequences, FiniteSets, TLC

(***************************************************************************)
(* Bounds of the model.                                                    *)
(***************************************************************************)
\* command invocations in one behaviour
MaxInvocations == 1
\* the configured max_seconds ranges over 0..MaxSeconds
MaxSeconds == 2
\* entries of promptFeedback.safetyRatings in a response
MaxRatings == 2

(***************************************************************************)
(* Program constants.                                                      *)
(***************************************************************************)
\* get_setting(self.view, "max_seconds", 60)
DefaultMaxSeconds == 60
\* usage_metadata.get("totalTokenCount", 0)
DefaultTokenCount == 0

(***************************************************************************)
(* Optional values, truthiness, dict.get.                                  *)
(***************************************************************************)
None == <<>>
Some(x) == <<x>>

\* dict.get(key, default) on an optional field
Get(opt, default) == IF opt = None THEN default ELSE opt[1]

\* "{}".format(...) of a message: the empty string iff every segment is ""
IsEmptyStr(msg) == \A k \in 1..Len(msg) : msg[k] = ""

\* truthiness of an optional message (thread.error): None and "" are falsy
TruthyMsg(opt) == opt # None /\ ~IsEmptyStr(opt[1])

\* truthiness of an optional text (thread.result, ai_text): None and "" are falsy
TruthyText(opt) == opt # None /\ opt[1] # <<>>

(***************************************************************************)
(* The response of the generateContent endpoint, as json.loads returns it. *)
(* promptFeedback.safetyRatings, candidates[k].content.parts and           *)
(* usageMetadata.totalTokenCount are flattened: the field is missing when  *)
(* any dict on the path to it is missing, which is how the chained         *)
(* .get(key, {}) calls of the code read it.                                *)
(***************************************************************************)
\* the "error" object: a dict, falsy when it has no key at all
ErrorObjs ==
    { [code |-> c, message |-> m] : c \in {None, Some(429)}, m \in {None, Some("quota")} }

Ratings ==
    { [blocked |-> b, reason |-> r] :
        b \in {None, Some(FALSE), Some(TRUE)}, r \in {None, Some("HARM")} }

RECURSIVE SeqsUpTo(_, _)
SeqsUpTo(S, n) ==
    IF n = 0 THEN { <<>> }
    ELSE LET shorter == SeqsUpTo(S, n - 1)
         IN  shorter \cup { Append(s, x) : s \in { t \in shorter : Len(t) = n - 1 }, x \in S }

FinishReasons == { "", "STOP", "MAX_TOKENS", "SAFETY", "RECITATION", "OTHER" }

Parts == { [text |-> t] : t \in {None, Some(<<>>), Some(<<"X">>)} }

PartLists == { None, Some(<<>>) } \cup { Some(<<p>>) : p \in Parts }
                 \cup { Some(<<[text |-> Some(<<"X">>)], [text |-> Some(<<"Y">>)]>>) }

Candidates ==
    { [finishReason |-> f, parts |-> p] :
        f \in {None} \cup { Some(r) : r \in FinishReasons }, p \in PartLists }

StopCandidate == [finishReason |-> Some("STOP"), parts |-> Some(<<[text |-> Some(<<"X">>)]>>)]

CandidateLists ==
    { None, Some(<<>>) } \cup { Some(<<c>>) : c \in Candidates }
        \cup { Some(<<StopCandidate, c>>) :
                 c \in { [finishReason |-> Some("SAFETY"), parts |-> None] } }

\* the responses whose safetyRatings lists have at most maxRatings entries
AllResponses(maxRatings) ==
    { [error |-> e, safetyRatings |-> s, candidates |-> c, totalTokenCount |-> n] :
        e \in {None} \cup { Some(o) : o \in ErrorObjs },
        s \in {None} \cup { Some(l) : l \in SeqsUpTo(Ratings, maxRatings) },
        c \in CandidateLists,
        n \in {None, Some(250)} }

(***************************************************************************)
(* AsyncGemini.get_gemini_response, the validation of the parsed response. *)
(* An outcome is what the call does: it raises ValueError(msg) or returns  *)
(* value; read is the set of response fields the call has looked up on the *)
(* way.                                                                    *)
(***************************************************************************)
Raise(msg, read) == [raised |-> TRUE, value |-> <<>>, msg |-> msg, read |-> read]
Return(text, read) == [raised |-> FALSE, value |-> text, msg |-> <<>>, read |-> read]

\* a loop that raises at the last blocked rating instead of the first
FirstBlocked_last(ratings, k) ==
    LET blocked == { j \in k..Len(ratings) : Get(ratings[j].blocked, FALSE) }
    IN  IF blocked = {} THEN 0 ELSE CHOOSE j \in blocked : \A l \in blocked : l <= j

\* for rating in safety_ratings: if rating.get("blocked"): raise ...
\* the index of the rating the loop raises at, 0 when the loop runs to its end
RECURSIVE FirstBlocked(_, _)
FirstBlocked(ratings, k) ==
    IF k > Len(ratings) THEN 0
    ELSE IF Get(ratings[k].blocked, FALSE) THEN k
    ELSE FirstBlocked(ratings, k + 1)

MsgApiError(details) == <<"API Error: ", details>>
MsgPromptBlocked(reason) == <<"Prompt blocked by safety filters: ", reason>>
MsgNoCandidates ==
    <<"Gemini did not return any candidates. The model might have generated no response or encountered an internal issue.">>
MsgMaxTokens(n) ==
    <<"Gemini finished early due to max tokens limit. Used ", ToString(n),
      " tokens. Try increasing 'max_tokens' in settings.">>
MsgSafety == <<"Gemini response blocked by safety filters.">>
MsgRecitation == <<"Gemini response blocked due to recitation policy.">>
MsgFinishedEarly(reason) == <<"Gemini finished early with reason: ", reason>>
MsgNoParts ==
    <<"No content parts found in AI response. This could be due to an empty model response even after successful generation.">>
MsgNoText == <<"No text content found in AI response part.">>
MsgTokenMissing == <<"API token is missing.">>

\* an extraction that returns the text of the last part instead of parts[0]
extract_content_last_part(first_candidate, read) ==
    LET content_parts == Get(first_candidate.parts, <<>>)
    IN  IF content_parts = <<>> THEN Raise(MsgNoParts, read \cup {"content.parts"})
        ELSE LET ai_text == Get(content_parts[Len(content_parts)].text, <<>>)
             IN  IF ai_text = <<>> THEN Raise(MsgNoText, read \cup {"content.parts", "text"})
                 ELSE Return(ai_text, read \cup {"content.parts", "text"})

\* content_parts = first_candidate.get("content", {}).get("parts", []) and what follows
extract_content(first_candidate, read) ==
    LET content_parts == Get(first_candidate.parts, <<>>)
        read_parts == read \cup {"content.parts"}
    IN  IF content_parts = <<>> THEN Raise(MsgNoParts, read_parts)
        ELSE LET ai_text == Get(content_parts[1].text, <<>>)
                 read_text == read_parts \cup {"text"}
             IN  IF ai_text = <<>> THEN Raise(MsgNoText, read_text)
                 ELSE Return(ai_text, read_text)

\* finish_reason branches that let a MAX_TOKENS candidate through to its content
check_finish_reason_lenient(response_dict, first_candidate, read) ==
    LET finish_reason == Get(first_candidate.finishReason, "")
        read_reason == read \cup {"finishReason"}
    IN  IF finish_reason \in {"", "STOP", "MAX_TOKENS"}
        THEN extract_content(first_candidate, read_reason)
        ELSE IF finish_reason = "SAFETY" THEN Raise(MsgSafety, read_reason)
        ELSE IF finish_reason = "RECITATION" THEN Raise(MsgRecitation, read_reason)
        ELSE Raise(MsgFinishedEarly(finish_reason), read_reason)

\* finish_reason branches that let only "STOP" through: an absent or empty
\* reason falls into the final else
check_finish_reason_strict(response_dict, first_candidate, read) ==
    LET finish_reason == Get(first_candidate.finishReason, "")
        read_reason == read \cup {"finishReason"}
    IN  IF finish_reason = "STOP" THEN extract_content(first_candidate, read_reason)
        ELSE IF finish_reason = "MAX_TOKENS"
             THEN Raise(MsgMaxTokens(Get(response_dict.totalTokenCount, DefaultTokenCount)),
                        read_reason \cup {"usageMetadata"})
        ELSE IF finish_reason = "SAFETY" THEN Raise(MsgSafety, read_reason)
        ELSE IF finish_reason = "RECITATION" THEN Raise(MsgRecitation, read_reason)
        ELSE Raise(MsgFinishedEarly(finish_reason), read_reason)

\* first_candidate = candidates[0]; the finish_reason branches
check_finish_reason(response_dict, first_candidate, read) ==
    LET finish_reason == Get(first_candidate.finishReason, "")
        read_reason == read \cup {"finishReason"}
    IN  IF finish_reason # ""
        THEN IF finish_reason = "STOP" THEN extract_content(first_candidate, read_reason)
             ELSE IF finish_reason = "MAX_TOKENS"
                  THEN Raise(MsgMaxTokens(Get(response_dict.totalTokenCount, DefaultTokenCount)),
                             read_reason \cup {"usageMetadata"})
             ELSE IF finish_reason = "SAFETY" THEN Raise(MsgSafety, read_reason)
             ELSE IF finish_reason = "RECITATION" THEN Raise(MsgRecitation, read_reason)
             ELSE Raise(MsgFinishedEarly(finish_reason), read_reason)
        ELSE extract_content(first_candidate, read_reason)

\* candidates = response_dict.get("candidates", []); if not candidates: raise ...
check_candidates(response_dict, read) ==
    LET candidates == Get(response_dict.candidates, <<>>)
        read_candidates == read \cup {"candidates"}
    IN  IF candidates = <<>> THEN Raise(MsgNoCandidates, read_candidates)
        ELSE check_finish_reason(response_dict, candidates[1], read_candidates)

\* the prompt feedback loop over safetyRatings
check_prompt_feedback(response_dict, read) ==
    LET safety_ratings == Get(response_dict.safetyRatings, <<>>)
        read_feedback == read \cup {"promptFeedback"}
        k == FirstBlocked(safety_ratings, 1)
    IN  IF k # 0
        THEN Raise(MsgPromptBlocked(Get(safety_ratings[k].reason, "Unknown reason")), read_feedback)
        ELSE check_candidates(response_dict, read_feedback)

\* truthiness of response_dict.get("error", None): a dict with no key is falsy
error_is_set(response_dict) ==
    /\ response_dict.error # None
    /\ ~(response_dict.error[1].code = None /\ response_dict.error[1].message = None)

\* a pipeline that looks at the candidates before the prompt feedback
validate_response_candidates_first(response_dict) ==
    IF error_is_set(response_dict)
    THEN Raise(MsgApiError(Get(response_dict.error[1].message, "Unknown API error")), {"error"})
    ELSE IF Get(response_dict.candidates, <<>>) = <<>>
         THEN Raise(MsgNoCandidates, {"error", "candidates"})
         ELSE check_prompt_feedback(response_dict, {"error"})

\* if response_dict.get("error", None): raise ... else: the rest of the pipeline
validate_response(response_dict) ==
    IF error_is_set(response_dict)
    THEN Raise(MsgApiError(Get(response_dict.error[1].message, "Unknown API error")), {"error"})
    ELSE check_prompt_feedback(response_dict, {"error"})

\* conn.request / conn.getresponse / response.read().decode / json.loads: the
\* exchange either raises an exception whose str() is msg, or yields a response
TransportMessages == { <<"timed out">>, <<"Expecting value: line 1 column 1 (char 0)">>, <<"">> }

NoResponse == [error |-> None, safetyRatings |-> None, candidates |-> None, totalTokenCount |-> None]

Failure(msg) == [failed |-> TRUE, msg |-> msg, response |-> NoResponse]
Delivered(r) == [failed |-> FALSE, msg |-> <<>>, response |-> r]

\* lines 129-187 of get_gemini_response on one exchange
get_gemini_response(exchange) ==
    IF exchange.failed THEN Raise(exchange.msg, {})
    ELSE validate_response(exchange.response)

(***************************************************************************)
(* The state.                                                              *)
(***************************************************************************)
VARIABLES
    globalSettings,  \* the gemini-ai.sublime-settings object: key -> optional value
    viewSettings,    \* the view's "GeminiAI" override mapping: key -> optional value
    sel,             \* self.view.sel(): the view's selection, a sequence of regions
    buffer,          \* the text of the view
    invoked,         \* how many commands the user has invoked so far
    cmd,             \* per invocation: the command invoked
    stage,           \* per invocation: where the command's own handlers ended
    thread,          \* per invocation: its AsyncGemini instance
    timer,           \* per invocation: the callbacks sublime.set_timeout holds for it
    ui,              \* the UI thread: idle, or inside a handle_thread call
    shown,           \* per invocation: the status messages and dialogs shown, in order
    polls,           \* per invocation: what each handle_thread call read of the thread
    commands,        \* per invocation: the mutation commands run for it, in order
    tabs,            \* per invocation: the scratch view its new-tab command opened
    debugLogging,    \* the debug_logging key of the global settings object
    logLevel         \* the level of the logger "GeminiAIPlugin"

vars == <<globalSettings, viewSettings, sel, buffer, invoked, cmd, stage, thread,
          timer, ui, shown, polls, commands, tabs, debugLogging, logLevel>>

\* the concurrency specification runs one command more than the others: the
\* second command of a pair, issued while the first is still polling
ConcurrentInvocations == MaxInvocations + 1

Inv == 1..ConcurrentInvocations

SettingKeys == {"api_token", "no_empty_selection", "max_seconds"}

(***************************************************************************)
(* Settings Access Layer.                                                  *)
(***************************************************************************)
\* a lookup that never consults the view's overrides
lookup_global_only(key) == globalSettings[key]

\* a lookup in which the global tier, when it defines the key, wins over the view
lookup_global_first(key) ==
    IF globalSettings[key] # None THEN globalSettings[key] ELSE viewSettings[key]

\* get_setting with default None: the view's value when it is not None, else the
\* global one, else None
lookup(key) ==
    IF viewSettings[key] # None THEN viewSettings[key] ELSE globalSettings[key]

get_setting(key, default) == Get(lookup(key), default)

(***************************************************************************)
(* Regions and text.                                                       *)
(***************************************************************************)
Region(a, b) == [a |-> a, b |-> b]
begin(r) == IF r.a <= r.b THEN r.a ELSE r.b
end(r) == IF r.a <= r.b THEN r.b ELSE r.a
empty(r) == r.a = r.b

Min(x, y) == IF x <= y THEN x ELSE y

\* view.substr(region): the characters at offsets [begin, end), clipped to the buffer
substr(text, r) == SubSeq(text, Min(begin(r), Len(text)) + 1, Min(end(r), Len(text)))

\* a replace that inserts the results at the region's start and erases nothing
replace_insert_only(text, r, results) ==
    SubSeq(text, 1, Min(begin(r), Len(text))) \o results
        \o SubSeq(text, Min(begin(r), Len(text)) + 1, Len(text))

\* view.replace(edit, region, results)
replace(text, r, results) ==
    SubSeq(text, 1, Min(begin(r), Len(text))) \o results
        \o SubSeq(text, Min(end(r), Len(text)) + 1, Len(text))

\* whole_file_as_context(view)
whole_file_as_context(text) == substr(text, Region(0, Len(text)))

(***************************************************************************)
(* Messages of the command layer.                                          *)
(***************************************************************************)
Status(msg) == [channel |-> "status", msg |-> msg]
Dialog(msg) == [channel |-> "dialog", msg |-> msg]

MsgNoApiToken == <<"Please put an 'api_token' in the GeminiAI package settings">>
MsgHighlight == <<"Please highlight a section of code.">>
MsgOneChunk == <<"Please highlight only 1 chunk of code.">>
MsgTimeout(max_seconds) == <<"Gemini ran out of time! ", ToString(max_seconds), "s">>
MsgThinking(seconds, max_seconds) ==
    <<"Gemini is thinking, one moment... (", ToString(seconds), "/", ToString(max_seconds), "s)">>
MsgGeminiError(error) == <<"Gemini AI Error: ">> \o error
MsgNoResult == <<"Something is wrong with Gemini - aborting (no result)">>
MsgInserted == <<"Gemini AI completion inserted.">>
MsgOpened == <<"Gemini AI instruction opened in new tab.">>
MsgCanceled == <<"Input canceled.">>

(***************************************************************************)
(* AsyncGemini: construction and the steps of run() on its own thread.     *)
(***************************************************************************)
\* the request payload, a dict: its "model", "contents" and "generationConfig" keys
Payload(model, contents, generationConfig) ==
    [model |-> model, contents |-> contents, generationConfig |-> generationConfig]

NoPayload == Payload(None, None, None)

DefaultModel == "gemini-2.5-flash"

\* model_name = self.data.get("model", "gemini-2.5-flash")
model_name(data) == Get(data.model, DefaultModel)

\* a body that is the payload as it stands, model key included
request_body_whole(data) == data

\* payload_for_body = self.data.copy(); del payload_for_body["model"]: the dict
\* that json.dumps serialises
request_body(data) == [data EXCEPT !.model = None]

\* "/v1beta/models/{}:{}?key={}".format(model_name, api_endpoint, token)
request_path(data, token) ==
    <<"/v1beta/models/", model_name(data), ":", "generateContent", "?key=", token>>

\* conn.request("POST", path, data_payload, headers)
Request(data, token) == [path |-> request_path(data, token), body |-> request_body(data)]

\* no AsyncGemini has been constructed for the invocation
NoThread ==
    [pc |-> "absent", running |-> FALSE, result |-> None, error |-> None,
     region |-> Region(0, 0), instruction |-> <<>>, requests |-> 0,
     exchange |-> Failure(<<>>), data |-> NoPayload, sent |-> None]

\* AsyncGemini.__init__ followed by thread.start(): run() has not executed yet
NewThread(region, data, instruction) ==
    [NoThread EXCEPT !.pc = "started", !.region = region, !.data = data,
                     !.instruction = instruction]

\* self.running = True; self.result = None; self.error = None
run_enter(t) == [t EXCEPT !.pc = "running", !.running = TRUE, !.result = None, !.error = None]

\* a store that leaves a result behind when the call raised
run_store_both(t, outcome) ==
    IF outcome.raised
    THEN [t EXCEPT !.pc = "finally", !.error = Some(outcome.msg), !.result = Some(outcome.value)]
    ELSE [t EXCEPT !.pc = "finally", !.result = Some(outcome.value)]

\* try: self.result = self.get_gemini_response() / except Exception as e: self.error = str(e)
run_store(t, outcome) ==
    IF outcome.raised
    THEN [t EXCEPT !.pc = "finally", !.error = Some(outcome.msg)]
    ELSE [t EXCEPT !.pc = "finally", !.result = Some(outcome.value)]

\* a finally that also resets the region the thread was constructed with
run_finally_resets_region(t) ==
    [t EXCEPT !.pc = "done", !.running = FALSE, !.region = Region(0, 0)]

\* finally: self.running = False
run_finally(t) == [t EXCEPT !.pc = "done", !.running = FALSE]

WorkerEnter(i) ==
    /\ thread[i].pc = "started"
    /\ thread' = [thread EXCEPT ![i] = run_enter(@)]
    /\ UNCHANGED <<globalSettings, viewSettings, sel, buffer, invoked, cmd, stage,
                   timer, ui, shown, polls, commands,
                   tabs, debugLogging, logLevel>>

\* a request step without the token check: the absent token is formatted into the path
WorkerRequest_unchecked(i) ==
    /\ thread[i].pc = "running"
    /\ thread' = [thread EXCEPT ![i].pc = "waiting", ![i].requests = @ + 1,
                                ![i].sent = Some(Request(thread[i].data,
                                                         Get(lookup("api_token"), "None")))]
    /\ UNCHANGED <<globalSettings, viewSettings, sel, buffer, invoked, cmd, stage,
                   timer, ui, shown, polls, commands,
                   tabs, debugLogging, logLevel>>

\* get_gemini_response up to conn.request: without a token nothing is sent
WorkerRequest(i) ==
    /\ thread[i].pc = "running"
    /\ IF lookup("api_token") = None
       THEN thread' = [thread EXCEPT ![i] = run_store(@, Raise(MsgTokenMissing, {}))]
       ELSE thread' = [thread EXCEPT ![i].pc = "waiting", ![i].requests = @ + 1,
                                     ![i].sent = Some(Request(thread[i].data,
                                                              lookup("api_token")[1]))]
    /\ UNCHANGED <<globalSettings, viewSettings, sel, buffer, invoked, cmd, stage,
                   timer, ui, shown, polls, commands,
                   tabs, debugLogging, logLevel>>

\* the exchange ends: the rest of get_gemini_response, and the store of its outcome
WorkerReceive(i, exchanges) ==
    /\ thread[i].pc = "waiting"
    /\ \E x \in exchanges :
         thread' = [thread EXCEPT
                      ![i] = run_store([@ EXCEPT !.exchange = x], get_gemini_response(x))]
    /\ UNCHANGED <<globalSettings, viewSettings, sel, buffer, invoked, cmd, stage,
                   timer, ui, shown, polls, commands,
                   tabs, debugLogging, logLevel>>

WorkerFinally(i) ==
    /\ thread[i].pc = "finally"
    /\ thread' = [thread EXCEPT ![i] = run_finally(@)]
    /\ UNCHANGED <<globalSettings, viewSettings, sel, buffer, invoked, cmd, stage,
                   timer, ui, shown, polls, commands,
                   tabs, debugLogging, logLevel>>

(***************************************************************************)
(* GeminiCommand: check_setup and the polling loop handle_thread.          *)
(***************************************************************************)
\* a check_setup without the api_token check
check_setup_no_token_check ==
    LET no_empty_selection == get_setting("no_empty_selection", TRUE)
    IN  IF sel = <<>> /\ no_empty_selection THEN "no_selection"
        ELSE IF sel # <<>> /\ empty(sel[1]) /\ no_empty_selection THEN "no_selection"
        ELSE "ok"

\* check_setup: "ok" when it returns, else the check that raised ValueError
check_setup ==
    IF lookup("api_token") = None THEN "no_token"
    ELSE LET no_empty_selection == get_setting("no_empty_selection", TRUE)
         IN  IF sel = <<>> /\ no_empty_selection THEN "no_selection"
             ELSE IF sel # <<>> /\ empty(sel[1]) /\ no_empty_selection THEN "no_selection"
             ELSE "ok"

\* what check_setup shows before it raises
check_setup_message(outcome) ==
    IF outcome = "no_token" THEN Dialog(MsgNoApiToken) ELSE Status(MsgHighlight)

Show(i, entry) == [shown EXCEPT ![i] = Append(@, entry)]

Idle == [pc |-> "idle", inv |-> 0]

\* one handle_thread call read thread.running (read = TRUE) or stopped at the
\* timeout check before reading it; result and error are the thread's at that moment
Poll(seconds, read, t) ==
    [seconds |-> seconds, read |-> read, running |-> read /\ t.running,
     result |-> t.result, error |-> t.error]

\* a timeout check that is off by one
timed_out_early(seconds, max_seconds) == seconds >= max_seconds

\* a timeout check that lets one more tick through
timed_out_late(seconds, max_seconds) == seconds > max_seconds + 1

\* the timeout check: if seconds > max_seconds
timed_out(seconds, max_seconds) == seconds > max_seconds

\* a handle_thread that keeps its timer when the thread has stopped
handle_thread_repoll(i, seconds) ==
    LET max_seconds == get_setting("max_seconds", DefaultMaxSeconds)
    IN  IF timed_out(seconds, max_seconds)
        THEN /\ shown' = Show(i, Status(MsgTimeout(max_seconds)))
             /\ polls' = [polls EXCEPT ![i] = Append(@, Poll(seconds, FALSE, thread[i]))]
             /\ timer' = [timer EXCEPT ![i].tick = None]
             /\ ui' = Idle
        ELSE /\ polls' = [polls EXCEPT ![i] = Append(@, Poll(seconds, TRUE, thread[i]))]
             /\ timer' = [timer EXCEPT ![i].tick = Some(seconds + 1)]
             /\ IF thread[i].running
                THEN /\ shown' = Show(i, Status(MsgThinking(seconds, max_seconds)))
                     /\ ui' = Idle
                ELSE /\ shown' = shown
                     /\ ui' = [pc |-> "read_error", inv |-> i]

\* a handle_thread that, once out of time, still consumes a thread that has stopped
handle_thread_late_read(i, seconds) ==
    LET max_seconds == get_setting("max_seconds", DefaultMaxSeconds)
    IN  IF timed_out(seconds, max_seconds)
        THEN /\ shown' = Show(i, Status(MsgTimeout(max_seconds)))
             /\ polls' = [polls EXCEPT ![i] = Append(@, Poll(seconds, FALSE, thread[i]))]
             /\ timer' = [timer EXCEPT ![i].tick = None]
             /\ ui' = IF thread[i].running THEN Idle ELSE [pc |-> "read_error", inv |-> i]
        ELSE /\ polls' = [polls EXCEPT ![i] = Append(@, Poll(seconds, TRUE, thread[i]))]
             /\ IF thread[i].running
                THEN /\ shown' = Show(i, Status(MsgThinking(seconds, max_seconds)))
                     /\ timer' = [timer EXCEPT ![i].tick = Some(seconds + 1)]
                     /\ ui' = Idle
                ELSE /\ shown' = shown
                     /\ timer' = [timer EXCEPT ![i].tick = None]
                     /\ ui' = [pc |-> "read_error", inv |-> i]

\* a handle_thread that polls the thread of the latest invocation, as if the
\* command kept its thread in one attribute shared by all its polling chains
handle_thread_shared(i, seconds) ==
    LET max_seconds == get_setting("max_seconds", DefaultMaxSeconds)
        latest == thread[invoked]
    IN  IF timed_out(seconds, max_seconds)
        THEN /\ shown' = Show(i, Status(MsgTimeout(max_seconds)))
             /\ polls' = [polls EXCEPT ![i] = Append(@, Poll(seconds, FALSE, latest))]
             /\ timer' = [timer EXCEPT ![i].tick = None]
             /\ ui' = Idle
        ELSE /\ polls' = [polls EXCEPT ![i] = Append(@, Poll(seconds, TRUE, latest))]
             /\ IF latest.running
                THEN /\ shown' = Show(i, Status(MsgThinking(seconds, max_seconds)))
                     /\ timer' = [timer EXCEPT ![i].tick = Some(seconds + 1)]
                     /\ ui' = Idle
                ELSE /\ shown' = shown
                     /\ timer' = [timer EXCEPT ![i].tick = None]
                     /\ ui' = [pc |-> "read_error", inv |-> i]

\* a handle_thread that looks at the thread first and checks the timeout only
\* while the thread is running
handle_thread_state_first(i, seconds) ==
    LET max_seconds == get_setting("max_seconds", DefaultMaxSeconds)
    IN  IF thread[i].running /\ timed_out(seconds, max_seconds)
        THEN /\ shown' = Show(i, Status(MsgTimeout(max_seconds)))
             /\ polls' = [polls EXCEPT ![i] = Append(@, Poll(seconds, FALSE, thread[i]))]
             /\ timer' = [timer EXCEPT ![i].tick = None]
             /\ ui' = Idle
        ELSE /\ polls' = [polls EXCEPT ![i] = Append(@, Poll(seconds, TRUE, thread[i]))]
             /\ IF thread[i].running
                THEN /\ shown' = Show(i, Status(MsgThinking(seconds, max_seconds)))
                     /\ timer' = [timer EXCEPT ![i].tick = Some(seconds + 1)]
                     /\ ui' = Idle
                ELSE /\ shown' = shown
                     /\ timer' = [timer EXCEPT ![i].tick = None]
                     /\ ui' = [pc |-> "read_error", inv |-> i]

\* handle_thread(thread, label, on_success_callback, seconds) up to its read of
\* thread.running; with running false it goes on to read thread.error
handle_thread(i, seconds) ==
    LET max_seconds == get_setting("max_seconds", DefaultMaxSeconds)
    IN  IF timed_out(seconds, max_seconds)
        THEN /\ shown' = Show(i, Status(MsgTimeout(max_seconds)))
             /\ polls' = [polls EXCEPT ![i] = Append(@, Poll(seconds, FALSE, thread[i]))]
             /\ timer' = [timer EXCEPT ![i].tick = None]
             /\ ui' = Idle
        ELSE /\ polls' = [polls EXCEPT ![i] = Append(@, Poll(seconds, TRUE, thread[i]))]
             /\ IF thread[i].running
                THEN /\ shown' = Show(i, Status(MsgThinking(seconds, max_seconds)))
                     /\ timer' = [timer EXCEPT ![i].tick = Some(seconds + 1)]
                     /\ ui' = Idle
                ELSE /\ shown' = shown
                     /\ timer' = [timer EXCEPT ![i].tick = None]
                     /\ ui' = [pc |-> "read_error", inv |-> i]

\* the call _prepare_and_run_gemini_thread makes right after thread.start()
FirstTick(i) ==
    /\ ui = [pc |-> "first_tick", inv |-> i]
    /\ handle_thread(i, 0)
    /\ UNCHANGED <<globalSettings, viewSettings, sel, buffer, invoked, cmd, stage,
                   thread, commands,
                   tabs, debugLogging, logLevel>>

\* the call the one-second timer makes
TimerTick(i) ==
    /\ ui = Idle
    /\ timer[i].tick # None
    /\ handle_thread(i, timer[i].tick[1])
    /\ UNCHANGED <<globalSettings, viewSettings, sel, buffer, invoked, cmd, stage,
                   thread, commands,
                   tabs, debugLogging, logLevel>>

\* a ReadError that returns on an error without showing it
ReadError_silent(i) ==
    /\ ui = [pc |-> "read_error", inv |-> i]
    /\ shown' = shown
    /\ ui' = IF TruthyMsg(thread[i].error) THEN Idle ELSE [pc |-> "read_result", inv |-> i]
    /\ UNCHANGED <<globalSettings, viewSettings, sel, buffer, invoked, cmd, stage,
                   thread, timer, polls, commands,
                   tabs, debugLogging, logLevel>>

\* a ReadError that, after showing the error, starts the worker and the chain again
ReadError_retry(i) ==
    /\ ui = [pc |-> "read_error", inv |-> i]
    /\ IF TruthyMsg(thread[i].error)
       THEN /\ shown' = Show(i, Dialog(MsgGeminiError(thread[i].error[1])))
            /\ thread' = [thread EXCEPT ![i] = [@ EXCEPT !.pc = "started"]]
            /\ timer' = [timer EXCEPT ![i].tick = Some(0)]
            /\ ui' = Idle
       ELSE /\ shown' = shown
            /\ thread' = thread
            /\ timer' = timer
            /\ ui' = [pc |-> "read_result", inv |-> i]
    /\ UNCHANGED <<globalSettings, viewSettings, sel, buffer, invoked, cmd, stage,
                   polls, commands,
                   tabs, debugLogging, logLevel>>

\* if thread.error: show the dialog and return
ReadError(i) ==
    /\ ui = [pc |-> "read_error", inv |-> i]
    /\ IF TruthyMsg(thread[i].error)
       THEN /\ shown' = Show(i, Dialog(MsgGeminiError(thread[i].error[1])))
            /\ ui' = Idle
       ELSE /\ shown' = shown
            /\ ui' = [pc |-> "read_result", inv |-> i]
    /\ UNCHANGED <<globalSettings, viewSettings, sel, buffer, invoked, cmd, stage,
                   thread, timer, polls, commands,
                   tabs, debugLogging, logLevel>>

\* a result check that takes None and "" for a result
has_result_always(t) == TRUE

\* the check "if not thread.result", negated
has_result(t) == TruthyText(t.result)

\* if not thread.result: show the generic failure; else schedule on_success_callback
ReadResult(i) ==
    /\ ui = [pc |-> "read_result", inv |-> i]
    /\ IF ~has_result(thread[i])
       THEN /\ shown' = Show(i, Status(MsgNoResult))
            /\ timer' = timer
       ELSE /\ shown' = shown
            /\ timer' = [timer EXCEPT ![i].callback = TRUE]
    /\ ui' = Idle
    /\ UNCHANGED <<globalSettings, viewSettings, sel, buffer, invoked, cmd, stage,
                   thread, polls, commands,
                   tabs, debugLogging, logLevel>>

(***************************************************************************)
(* GeminiBaseAiCommand and the two commands.                               *)
(***************************************************************************)
\* the view's syntax name and the instruction display string of "instruct"
syntax_name == "Python"
syntax_lower == "python"

\* "{} Code:\n\n[fence]{}\n{}\n[fence]\n\nInstruction:\n\n{}": [fence] stands for the
\* three backquotes of a Markdown code fence
instruction_text(content, user_input) ==
    <<syntax_name, " Code:\n\n[fence]", syntax_lower, "\n">> \o content
        \o <<"\n[fence]\n\nInstruction:\n\n">> \o user_input

\* evaluate_instruction_snippet: the persona sentence followed by the fenced
\* code and the instruction
evaluate_instruction_snippet(user_input, content) ==
    <<"You are a helpful ", syntax_name, " coding assistant">>
        \o instruction_text(content, user_input)

\* get_prompt_data of the two commands, the command's settings dict holding no
\* key: the model and the generation parameters are the defaults
get_prompt_data(command_name, content, user_input) ==
    IF command_name = "instruct"
    THEN Payload(Some(DefaultModel), Some(evaluate_instruction_snippet(user_input, content)),
                 Some([temperature |-> 0, top_p |-> 1, max_output_tokens |-> None]))
    ELSE Payload(Some(DefaultModel), Some(content),
                 Some([temperature |-> 0, top_p |-> 1, max_output_tokens |-> Some(100)]))

\* _prepare_and_run_gemini_thread up to and including thread.start()
prepare_and_run(i, command_name, content, user_input) ==
    LET instruction == IF command_name = "instruct"
                       THEN instruction_text(content, user_input) ELSE <<>>
        region == IF sel # <<>> THEN sel[1] ELSE Region(0, 0)
        data == get_prompt_data(command_name, content, user_input)
    IN  /\ thread' = [thread EXCEPT ![i] = NewThread(region, data, instruction)]
        /\ stage' = [stage EXCEPT ![i] = "started"]
        /\ ui' = [pc |-> "first_tick", inv |-> i]
        /\ shown' = shown

\* a command ends before it builds a thread
abort(i, how, entries) ==
    /\ stage' = [stage EXCEPT ![i] = how]
    /\ shown' = [shown EXCEPT ![i] = @ \o entries]
    /\ thread' = thread
    /\ ui' = ui

\* CompletionGeminiCommand.run
CompletionRun(limit) ==
    /\ ui = Idle
    /\ invoked < limit
    /\ invoked' = invoked + 1
    /\ cmd' = [cmd EXCEPT ![invoked + 1] = "completions"]
    /\ LET i == invoked + 1
           setup == check_setup
       IN  IF setup # "ok" THEN abort(i, setup, <<check_setup_message(setup)>>)
           ELSE IF Len(sel) = 0 /\ get_setting("no_empty_selection", TRUE)
                THEN abort(i, "one_chunk", <<Status(MsgOneChunk)>>)
           \* region = self.view.sel()[0] raises IndexError on an empty selection
           ELSE IF sel = <<>> THEN abort(i, "index_error", <<>>)
           ELSE prepare_and_run(i, "completions", substr(buffer, sel[1]), <<>>)
    /\ UNCHANGED <<globalSettings, viewSettings, sel, buffer, timer, polls, commands,
                   tabs, debugLogging, logLevel>>

\* InstructGeminiCommand.run: the input panel opens
InstructRun(limit) ==
    /\ ui = Idle
    /\ invoked < limit
    /\ invoked' = invoked + 1
    /\ cmd' = [cmd EXCEPT ![invoked + 1] = "instruct"]
    /\ stage' = [stage EXCEPT ![invoked + 1] = "panel"]
    /\ UNCHANGED <<globalSettings, viewSettings, sel, buffer, thread, timer, ui, shown,
                   polls, commands,
                   tabs, debugLogging, logLevel>>

UserInputs == { <<"i">> }

\* an on_input_done that takes the whole-file fallback before the gate: an empty
\* selection never reaches check_setup
OnInputDone_fallback_first(i) ==
    /\ ui = Idle
    /\ stage[i] = "panel"
    /\ \E user_input \in UserInputs :
         LET setup == check_setup
             use_whole_file == Len(sel) = 0 \/ empty(sel[1])
             region == IF sel # <<>> THEN sel[1] ELSE Region(0, 0)
             content == IF use_whole_file THEN whole_file_as_context(buffer)
                        ELSE substr(buffer, region)
         IN  IF use_whole_file THEN prepare_and_run(i, "instruct", content, user_input)
             ELSE IF setup # "ok" THEN abort(i, setup, <<check_setup_message(setup)>>)
             ELSE prepare_and_run(i, "instruct", content, user_input)
    /\ UNCHANGED <<globalSettings, viewSettings, sel, buffer, invoked, cmd, timer, polls,
                   commands,
                   tabs, debugLogging, logLevel>>

\* InstructGeminiCommand.on_input_done
OnInputDone(i) ==
    /\ ui = Idle
    /\ stage[i] = "panel"
    /\ \E user_input \in UserInputs :
         LET setup == check_setup
             use_whole_file == Len(sel) = 0 \/ empty(sel[1])
             region == IF sel # <<>> THEN sel[1] ELSE Region(0, 0)
             content == IF use_whole_file THEN whole_file_as_context(buffer)
                        ELSE substr(buffer, region)
         IN  IF setup # "ok" THEN abort(i, setup, <<check_setup_message(setup)>>)
             ELSE prepare_and_run(i, "instruct", content, user_input)
    /\ UNCHANGED <<globalSettings, viewSettings, sel, buffer, invoked, cmd, timer, polls,
                   commands,
                   tabs, debugLogging, logLevel>>

\* a cancel handler that validates the setup, as on_input_done does, before it returns
OnInputCancel_checked(i) ==
    /\ ui = Idle
    /\ stage[i] = "panel"
    /\ LET setup == check_setup
       IN  IF setup # "ok"
           THEN abort(i, "cancelled", <<check_setup_message(setup), Status(MsgCanceled)>>)
           ELSE abort(i, "cancelled", <<Status(MsgCanceled)>>)
    /\ UNCHANGED <<globalSettings, viewSettings, sel, buffer, invoked, cmd, timer, polls,
                   commands,
                   tabs, debugLogging, logLevel>>

\* InstructGeminiCommand.on_input_cancel
OnInputCancel(i) ==
    /\ ui = Idle
    /\ stage[i] = "panel"
    /\ abort(i, "cancelled", <<Status(MsgCanceled)>>)
    /\ UNCHANGED <<globalSettings, viewSettings, sel, buffer, invoked, cmd, timer, polls,
                   commands,
                   tabs, debugLogging, logLevel>>

\* on_api_success of either command: the mutation command is scheduled
OnApiSuccess(i) ==
    /\ ui = Idle
    /\ timer[i].callback
    /\ timer' = [timer EXCEPT ![i].callback = FALSE, ![i].command = TRUE]
    /\ shown' = Show(i, Status(IF cmd[i] = "completions" THEN MsgInserted ELSE MsgOpened))
    /\ UNCHANGED <<globalSettings, viewSettings, sel, buffer, invoked, cmd, stage, thread,
                   ui, polls, commands,
                   tabs, debugLogging, logLevel>>

\* arguments that take the offsets of the selection at the time the command runs
replace_text_args_current_selection(t) ==
    [name |-> "replace_text",
     region |-> IF sel = <<>> THEN <<0, 0>> ELSE <<begin(sel[1]), end(sel[1])>>,
     instruction |-> <<>>, results |-> t.instruction \o Get(t.result, <<>>)]

\* the arguments on_api_success gives the mutation command, read when it runs
replace_text_args(t) ==
    [name |-> "replace_text", region |-> <<begin(t.region), end(t.region)>>,
     instruction |-> <<>>, results |-> t.instruction \o Get(t.result, <<>>)]

\* arguments whose results carry the instruction string in front, as replace_text's do
open_new_tab_args_prefixed(t) ==
    [name |-> "open_new_tab_with_content", region |-> <<0, 0>>,
     instruction |-> t.instruction, results |-> t.instruction \o Get(t.result, <<>>)]

open_new_tab_args(t) ==
    [name |-> "open_new_tab_with_content", region |-> <<0, 0>>,
     instruction |-> t.instruction, results |-> Get(t.result, <<>>)]

\* output = "### User:\n\n{}\n\n---\n\n### Results:\n\n{}".format(instruction, results)
new_tab_output(instruction, results) ==
    <<"### User:\n\n">> \o instruction \o <<"\n\n---\n\n### Results:\n\n">> \o results

\* one call on the new view: the method or command, and its argument
ViewCall(op, arg) == [op |-> op, arg |-> arg]

\* timers with the two delays exchanged: the cursor is moved first
open_new_tab_timers_swapped(output) ==
    { [delay |-> 100, call |-> ViewCall("append", output)],
      [delay |-> 0, call |-> ViewCall("move_to", <<"bof">>)] }

\* the two callbacks OpenNewTabWithContentCommand.run hands to set_timeout
open_new_tab_timers(output) ==
    { [delay |-> 0, call |-> ViewCall("append", output)],
      [delay |-> 100, call |-> ViewCall("move_to", <<"bof">>)] }

\* OpenNewTabWithContentCommand.run, the view staying in its window: the calls
\* it makes on the new view, in order, and the callbacks it leaves with the timer
open_new_tab(instruction, results) ==
    [events |-> << ViewCall("new_file", <<>>), ViewCall("set_scratch", <<"True">>),
                   ViewCall("set_name", <<"Gemini Results">>),
                   ViewCall("assign_syntax", <<"Packages/Markdown/Markdown.sublime-syntax">>),
                   ViewCall("focus_view", <<>>) >>,
     pending |-> open_new_tab_timers(new_tab_output(instruction, results))]

\* ReplaceTextCommand.run / OpenNewTabWithContentCommand.run
RunCommand(i) ==
    /\ ui = Idle
    /\ timer[i].command
    /\ timer' = [timer EXCEPT ![i].command = FALSE]
    /\ LET args == IF cmd[i] = "completions" THEN replace_text_args(thread[i])
                   ELSE open_new_tab_args(thread[i])
       IN  /\ commands' = [commands EXCEPT ![i] = Append(@, args)]
           /\ buffer' = IF cmd[i] = "completions"
                        THEN replace(buffer, Region(args.region[1], args.region[2]), args.results)
                        ELSE buffer
           /\ tabs' = IF cmd[i] = "completions" THEN tabs
                      ELSE [tabs EXCEPT ![i] = open_new_tab(args.instruction, args.results)]
    /\ UNCHANGED <<globalSettings, viewSettings, sel, invoked, cmd, stage, thread, ui,
                   shown, polls, debugLogging, logLevel>>

\* the timer runs a callback of the new tab: of those it holds, the one with the
\* shortest delay
TabTimer(i) ==
    /\ ui = Idle
    /\ \E c \in tabs[i].pending :
         /\ \A d \in tabs[i].pending : c.delay <= d.delay
         /\ tabs' = [tabs EXCEPT ![i].pending = @ \ {c}, ![i].events = Append(@, c.call)]
    /\ UNCHANGED <<globalSettings, viewSettings, sel, buffer, invoked, cmd, stage, thread,
                   timer, ui, shown, polls, commands, debugLogging, logLevel>>

(***************************************************************************)
(* The user and the specifications.                                        *)
(***************************************************************************)
InitialBuffer == <<"a", "b", "c">>

\* no selection, an empty primary selection, a selection of two characters
Selections == { <<>>, <<Region(1, 1)>>, <<Region(0, 2)>> }

NoSettings == [k \in SettingKeys |-> None]

\* no scratch view has been opened
NoTab == [events |-> <<>>, pending |-> {}]

InitInvocations ==
    /\ invoked = 0
    /\ cmd = [i \in Inv |-> "none"]
    /\ stage = [i \in Inv |-> "none"]
    /\ thread = [i \in Inv |-> NoThread]
    /\ timer = [i \in Inv |-> [tick |-> None, callback |-> FALSE, command |-> FALSE]]
    /\ ui = Idle
    /\ shown = [i \in Inv |-> <<>>]
    /\ polls = [i \in Inv |-> <<>>]
    /\ commands = [i \in Inv |-> <<>>]
    /\ tabs = [i \in Inv |-> NoTab]
    /\ debugLogging = None
    /\ logLevel = "NOTSET"

\* a configured token and no override, with every max_seconds: the polling loop
TimedSettings ==
    { [api_token |-> Some("key"), no_empty_selection |-> None, max_seconds |-> Some(m)] :
        m \in 0..MaxSeconds }

\* every api_token / no_empty_selection combination, with max_seconds 0: the setup
SetupSettings ==
    { [api_token |-> t, no_empty_selection |-> n, max_seconds |-> Some(0)] :
        t \in {None, Some("key")}, n \in {None, Some(TRUE), Some(FALSE)} }

\* the per-view overrides of the model
ViewOverrides ==
    { NoSettings, [NoSettings EXCEPT !.no_empty_selection = Some(FALSE)],
      [NoSettings EXCEPT !.no_empty_selection = Some(TRUE)],
      [NoSettings EXCEPT !.api_token = Some("viewkey")] }

\* the view's override of max_seconds, laid over the global max_seconds = 0
TimedOverride == [NoSettings EXCEPT !.max_seconds = Some(1)]

Init ==
    /\ \/ /\ globalSettings \in TimedSettings
          /\ viewSettings = NoSettings
          /\ sel = <<Region(0, 2)>>
       \/ /\ globalSettings \in { g \in TimedSettings : g.max_seconds = Some(0) }
          /\ viewSettings = TimedOverride
          /\ sel = <<Region(0, 2)>>
       \/ /\ globalSettings \in SetupSettings
          /\ viewSettings \in ViewOverrides
          /\ sel \in Selections
    /\ buffer = InitialBuffer
    /\ InitInvocations

\* the user drags a new selection, backwards from offset 3 to offset 1, over the
\* one the commands of the polling configurations start from
MovedSelection == <<Region(3, 1)>>

ChangeSelection ==
    /\ ui = Idle
    /\ sel = <<Region(0, 2)>>
    /\ sel' = MovedSelection
    /\ UNCHANGED <<globalSettings, viewSettings, buffer, invoked, cmd, stage, thread, timer,
                   ui, shown, polls, commands,
                   tabs, debugLogging, logLevel>>

\* the exchanges of the interleaved specification: a success, an API error and a
\* failure whose str() is empty
OkResponse == [NoResponse EXCEPT !.candidates = Some(<<StopCandidate>>)]
QuotaResponse == [NoResponse EXCEPT !.error = Some([code |-> Some(429), message |-> Some("quota")])]
Exchanges == { Delivered(OkResponse), Delivered(QuotaResponse), Failure(<<"">>) }

Worker(exchanges) ==
    \E i \in Inv :
        \/ WorkerEnter(i)
        \/ WorkerRequest(i)
        \/ WorkerReceive(i, exchanges)
        \/ WorkerFinally(i)

UiThread(limit) ==
    \/ CompletionRun(limit)
    \/ InstructRun(limit)
    \/ \E i \in Inv :
        \/ OnInputDone(i)
        \/ OnInputCancel(i)
        \/ FirstTick(i)
        \/ TimerTick(i)
        \/ ReadError(i)
        \/ ReadResult(i)
        \/ OnApiSuccess(i)
        \/ RunCommand(i)
        \/ TabTimer(i)

Next == UiThread(MaxInvocations) \/ Worker(Exchanges)

Spec == Init /\ [][Next]_vars

(***************************************************************************)
(* The specification of one worker against every response of the model:    *)
(* it starts where a completion command has just started its thread.       *)
(***************************************************************************)
AllExchanges(maxRatings) ==
    { Delivered(r) : r \in AllResponses(maxRatings) } \cup { Failure(m) : m \in TransportMessages }

InitResponse ==
    /\ globalSettings = [api_token |-> Some("key"), no_empty_selection |-> None,
                         max_seconds |-> Some(0)]
    /\ viewSettings = NoSettings
    /\ sel = <<Region(0, 2)>>
    /\ buffer = InitialBuffer
    /\ invoked = 1
    /\ cmd = [i \in Inv |-> IF i = 1 THEN "completions" ELSE "none"]
    /\ stage = [i \in Inv |-> IF i = 1 THEN "started" ELSE "none"]
    /\ thread = [i \in Inv |-> IF i = 1
                                THEN NewThread(Region(0, 2),
                                               get_prompt_data("completions", <<"a", "b">>, <<>>),
                                               <<>>)
                                ELSE NoThread]
    /\ timer = [i \in Inv |-> [tick |-> None, callback |-> FALSE, command |-> FALSE]]
    /\ ui = [pc |-> "first_tick", inv |-> 1]
    /\ shown = [i \in Inv |-> <<>>]
    /\ polls = [i \in Inv |-> <<>>]
    /\ commands = [i \in Inv |-> <<>>]
    /\ tabs = [i \in Inv |-> NoTab]
    /\ debugLogging = None
    /\ logLevel = "NOTSET"

NextResponse == Worker(AllExchanges(MaxRatings))

SpecResponse == InitResponse /\ [][NextResponse]_vars

(***************************************************************************)
(* The specification of concurrent invocations: completion commands issued *)
(* while earlier ones are still polling, each worker ending in a success   *)
(* or in an API error, with max_seconds = 1.                               *)
(***************************************************************************)
ConcurrentExchanges == { Delivered(OkResponse), Delivered(QuotaResponse) }

InitConcurrent ==
    /\ globalSettings = [api_token |-> Some("key"), no_empty_selection |-> None,
                         max_seconds |-> Some(1)]
    /\ viewSettings = NoSettings
    /\ sel = <<Region(0, 2)>>
    /\ buffer = InitialBuffer
    /\ InitInvocations

Polling ==
    \E i \in Inv :
        \/ FirstTick(i)
        \/ TimerTick(i)
        \/ ReadError(i)
        \/ ReadResult(i)
        \/ OnApiSuccess(i)
        \/ RunCommand(i)

NextConcurrent ==
    \/ CompletionRun(ConcurrentInvocations)
    \/ Polling
    \/ Worker(ConcurrentExchanges)

SpecConcurrent == InitConcurrent /\ [][NextConcurrent]_vars

(***************************************************************************)
(* The specification of a selection that moves under a completion command: *)
(* the configuration of the concurrency specification, with the user       *)
(* changing the selection at any moment the UI thread is idle.             *)
(***************************************************************************)
NextSelection ==
    \/ CompletionRun(MaxInvocations)
    \/ ChangeSelection
    \/ Polling
    \/ Worker(ConcurrentExchanges)

SpecSelection == InitConcurrent /\ [][NextSelection]_vars

(***************************************************************************)
(* The specification of completions racing on overlapping regions: the     *)
(* configuration of the concurrency specification, every worker answered   *)
(* by a successful response, the user moving the selection from [0, 2) to  *)
(* [1, 3) between commands.                                                *)
(***************************************************************************)
RaceExchanges == { Delivered(OkResponse) }

NextRace ==
    \/ CompletionRun(ConcurrentInvocations)
    \/ ChangeSelection
    \/ Polling
    \/ Worker(RaceExchanges)

SpecRace == InitConcurrent /\ [][NextRace]_vars

(***************************************************************************)
(* The specification of the settings changing under a running worker: the  *)
(* worker of one completion command has just been started, over any        *)
(* payload and any tier holding the token, and while the UI thread is idle *)
(* the user edits the settings and the logging level is recomputed.        *)
(***************************************************************************)
\* an update that takes an undefined debug_logging as true
update_logging_level_default_on(debug_logging) ==
    IF Get(debug_logging, TRUE) THEN "DEBUG" ELSE "CRITICAL"

\* _update_logging_level: the level it sets from settings.get("debug_logging", False)
update_logging_level(debug_logging) ==
    IF Get(debug_logging, FALSE) THEN "DEBUG" ELSE "CRITICAL"

\* the values of the debug_logging key: undefined, true, false
DebugLoggingValues == {None, Some(TRUE), Some(FALSE)}

\* the dicts an AsyncGemini is constructed with: the model key absent, the
\* default model, another model; max_output_tokens present or not
Payloads ==
    { Payload(m, Some(<<"a", "b">>),
              Some([temperature |-> 0, top_p |-> 1, max_output_tokens |-> t])) :
        m \in {None, Some(DefaultModel), Some("gemini-pro")}, t \in {None, Some(100)} }

\* the tiers that hold the api_token when check_setup has passed
TokenTiers ==
    { <<Some("key"), None>>, <<None, Some("viewkey")>>, <<Some("key"), Some("viewkey")>> }

InitSettings ==
    /\ \E tiers \in TokenTiers :
         /\ globalSettings = [api_token |-> tiers[1], no_empty_selection |-> None,
                              max_seconds |-> Some(1)]
         /\ viewSettings = [NoSettings EXCEPT !.api_token = tiers[2]]
    /\ sel = <<Region(0, 2)>>
    /\ buffer = InitialBuffer
    /\ invoked = 1
    /\ cmd = [i \in Inv |-> IF i = 1 THEN "completions" ELSE "none"]
    /\ stage = [i \in Inv |-> IF i = 1 THEN "started" ELSE "none"]
    /\ \E data \in Payloads :
         thread = [i \in Inv |-> IF i = 1 THEN NewThread(Region(0, 2), data, <<>>)
                                 ELSE NoThread]
    /\ timer = [i \in Inv |-> [tick |-> None, callback |-> FALSE, command |-> FALSE]]
    /\ ui = [pc |-> "first_tick", inv |-> 1]
    /\ shown = [i \in Inv |-> <<>>]
    /\ polls = [i \in Inv |-> <<>>]
    /\ commands = [i \in Inv |-> <<>>]
    /\ tabs = [i \in Inv |-> NoTab]
    /\ debugLogging \in DebugLoggingValues
    /\ logLevel = "NOTSET"

\* the user deletes the api_token key from one tier of the settings
RemoveToken ==
    /\ ui = Idle
    /\ \/ /\ globalSettings.api_token # None
          /\ globalSettings' = [globalSettings EXCEPT !.api_token = None]
          /\ UNCHANGED viewSettings
       \/ /\ viewSettings.api_token # None
          /\ viewSettings' = [viewSettings EXCEPT !.api_token = None]
          /\ UNCHANGED globalSettings
    /\ UNCHANGED <<sel, buffer, invoked, cmd, stage, thread, timer, ui, shown, polls,
                   commands, tabs, debugLogging, logLevel>>

\* the user edits the debug_logging key of the global settings
EditDebugLogging ==
    /\ ui = Idle
    /\ \E v \in DebugLoggingValues :
         /\ v # debugLogging
         /\ debugLogging' = v
    /\ UNCHANGED <<globalSettings, viewSettings, sel, buffer, invoked, cmd, stage, thread,
                   timer, ui, shown, polls, commands, tabs, logLevel>>

\* one call of _update_logging_level
UpdateLoggingLevel ==
    /\ ui = Idle
    /\ logLevel' = update_logging_level(debugLogging)
    /\ UNCHANGED <<globalSettings, viewSettings, sel, buffer, invoked, cmd, stage, thread,
                   timer, ui, shown, polls, commands, tabs, debugLogging>>

NextSettings ==
    \/ Polling
    \/ Worker(ConcurrentExchanges)
    \/ RemoveToken
    \/ EditDebugLogging
    \/ UpdateLoggingLevel

SpecSettings == InitSettings /\ [][NextSettings]_vars

(***************************************************************************)
(* The specification of the polling chains under fair scheduling of the UI *)
(* thread: completion commands with max_seconds from 0 to MaxSeconds.  The  *)
(* editor runs every callback handed to set_timeout and lets every handler *)
(* that has started run to its end; nothing is assumed of the worker,      *)
(* which may stay in its request for ever.                                 *)
(***************************************************************************)
InitLive ==
    /\ globalSettings \in TimedSettings
    /\ viewSettings = NoSettings
    /\ sel = <<Region(0, 2)>>
    /\ buffer = InitialBuffer
    /\ InitInvocations

NextLive ==
    \/ CompletionRun(MaxInvocations)
    \/ Polling
    \/ Worker(Exchanges)

SpecLive == InitLive /\ [][NextLive]_vars /\ WF_vars(Polling)

(***************************************************************************)
(* Vocabulary of the properties.                                           *)
(***************************************************************************)
\* the value max_seconds resolves to
MaxSecondsNow ==
    IF viewSettings.max_seconds # None THEN viewSettings.max_seconds[1]
    ELSE IF globalSettings.max_seconds # None THEN globalSettings.max_seconds[1]
    ELSE DefaultMaxSeconds

\* api_token resolves to absent
TokenAbsent == viewSettings.api_token = None /\ globalSettings.api_token = None

\* the value no_empty_selection resolves to
NoEmptySelectionNow ==
    IF viewSettings.no_empty_selection # None THEN viewSettings.no_empty_selection[1]
    ELSE IF globalSettings.no_empty_selection # None THEN globalSettings.no_empty_selection[1]
    ELSE TRUE

\* the selection set is empty or the primary selection is empty
EmptySelection == Len(sel) = 0 \/ sel[1].a = sel[1].b

\* the command of invocation i has run check_setup and returned
HandlerReturned(i) == stage[i] \notin {"none", "panel", "cancelled"}

\* no handle_thread call of invocation i is in progress or scheduled
ChainOver(i) == polls[i] # <<>> /\ timer[i].tick = None /\ ui.inv # i

\* the handle_thread call read running = false with result or error set
TerminalPoll(p) == p.read /\ ~p.running /\ (p.result # None \/ p.error # None)

TerminalPolls(i) == { k \in 1..Len(polls[i]) : TerminalPoll(polls[i][k]) }

\* the chain of invocation i ended in the timeout branch
TimedOut(i) == polls[i] # <<>> /\ ~polls[i][Len(polls[i])].read

ErrorDialogs(i) ==
    { k \in 1..Len(shown[i]) :
        shown[i][k].channel = "dialog" /\ shown[i][k].msg[1] = "Gemini AI Error: " }

NothingScheduled(i) == timer[i] = [tick |-> None, callback |-> FALSE, command |-> FALSE]

(***************************************************************************)
(* C1.  Whenever a handle_thread call, the first one included, reads       *)
(* running = false, exactly one of result / error is already set.          *)
(* The first call can run before run() has set running = True.             *)
(***************************************************************************)
C1_NotRunningMeansSettled ==
    \A i \in Inv : \A k \in 1..Len(polls[i]) :
        (polls[i][k].read /\ ~polls[i][k].running)
            => ((polls[i][k].result # None) # (polls[i][k].error # None))

(***************************************************************************)
(* C2.  In every state of every AsyncGemini instance, result and error are *)
(* never both set.                                                         *)
(***************************************************************************)
C2_NeverBothSet ==
    \A i \in Inv : ~(thread[i].result # None /\ thread[i].error # None)

\* a worker has failed and stopped: error set, result unset, running false
C2_Witness ==
    \E i \in Inv :
        /\ thread[i].pc = "done" /\ ~thread[i].running
        /\ thread[i].error # None /\ thread[i].result = None

(***************************************************************************)
(* C3.  As stated: once the polling chain of an invocation is over, it has *)
(* observed the worker in a terminal state on exactly one tick (stated for *)
(* the chains whose first tick found the worker running).                  *)
(***************************************************************************)
C3_ObservedExactlyOnce ==
    \A i \in Inv :
        (ChainOver(i) /\ polls[i][1].running) => Cardinality(TerminalPolls(i)) = 1

(***************************************************************************)
(* C3, amended.  The polling chain observes the worker in a terminal state *)
(* on at most one tick, which is then its last; a chain that ends in the   *)
(* timeout branch has observed it on no tick.                              *)
(***************************************************************************)
C3_ObservedAtMostOnce ==
    \A i \in Inv :
        /\ Cardinality(TerminalPolls(i)) <= 1
        /\ \A k \in TerminalPolls(i) : k = Len(polls[i])
        /\ TimedOut(i) => TerminalPolls(i) = {}

\* a chain has observed its stopped worker, after at least one "thinking" tick
C3_Witness ==
    \E i \in Inv : ChainOver(i) /\ Len(polls[i]) >= 2 /\ TerminalPolls(i) = {Len(polls[i])}

(***************************************************************************)
(* C4.  With max_seconds = M, a chain that ends in the timeout branch has  *)
(* shown exactly the M+1 "thinking" messages for elapsed 0..M, then the    *)
(* timeout message at elapsed M+1; nothing stays scheduled and neither the *)
(* success callback nor a mutation command ever runs.                      *)
(***************************************************************************)
C4_TimeoutAfterAllThinking ==
    \A i \in Inv :
        TimedOut(i) =>
            LET M == MaxSecondsNow
            IN  /\ Len(polls[i]) = M + 2
                /\ \A k \in 1..(M + 1) :
                     /\ polls[i][k].seconds = k - 1
                     /\ polls[i][k].read /\ polls[i][k].running
                     /\ shown[i][k] = Status(MsgThinking(k - 1, M))
                /\ polls[i][M + 2].seconds = M + 1
                /\ shown[i] = SubSeq(shown[i], 1, M + 1) \o <<Status(MsgTimeout(M))>>
                /\ NothingScheduled(i)
                /\ commands[i] = <<>>

\* the chain timed out on a worker that is still running, with max_seconds >= 1
C4_Witness ==
    \E i \in Inv : TimedOut(i) /\ thread[i].running /\ MaxSecondsNow >= 1

(***************************************************************************)
(* C5.  The success callback and the mutation command run only after a     *)
(* tick with elapsed <= max_seconds that read running = false and found no *)
(* error and a non-empty result; a chain that ended in the error branch or *)
(* the timeout branch has shown a message and never mutates anything.      *)
(***************************************************************************)
C5_MutationOnlyOnSuccess ==
    \A i \in Inv :
        /\ (timer[i].callback \/ timer[i].command \/ commands[i] # <<>>) =>
              LET last == polls[i][Len(polls[i])]
              IN  /\ last.read /\ ~last.running /\ last.seconds <= MaxSecondsNow
                  /\ ~TruthyMsg(thread[i].error)
                  /\ TruthyText(thread[i].result)
        /\ (ErrorDialogs(i) # {} \/ TimedOut(i)) =>
              /\ shown[i] # <<>>
              /\ ~timer[i].callback /\ ~timer[i].command /\ commands[i] = <<>>
              /\ (buffer # InitialBuffer => \E j \in Inv : j # i /\ commands[j] # <<>>)

\* a mutation command has run
C5_Witness == \E i \in Inv : commands[i] # <<>> /\ buffer # InitialBuffer

(***************************************************************************)
(* C6.  As stated: every failure of the worker's network attempt is shown  *)
(* as an error dialog exactly once (stated for the chains whose first tick *)
(* found the worker running and for the failures of non-empty message).    *)
(***************************************************************************)
C6_FailureShownExactlyOnce ==
    \A i \in Inv :
        ( /\ thread[i].pc = "done" /\ TruthyMsg(thread[i].error)
          /\ ChainOver(i) /\ polls[i][1].running )
            => Cardinality(ErrorDialogs(i)) = 1

(***************************************************************************)
(* C6, amended.  Every failure of the worker's attempt is carried on its   *)
(* error field and shown as an error dialog at most once; it is shown, as  *)
(* "Gemini AI Error: " followed by the message, exactly when a tick with   *)
(* elapsed <= max_seconds has read running = false and then a non-empty    *)
(* error.  A failure stored after the chain stopped, or of empty message,  *)
(* is shown in no dialog.                                                  *)
(***************************************************************************)
C6_FailureShownAtMostOnce ==
    \A i \in Inv :
        /\ (thread[i].pc \in {"finally", "done"} /\ thread[i].result = None)
              => thread[i].error # None
        /\ Cardinality(ErrorDialogs(i)) <= 1
        /\ \A k \in ErrorDialogs(i) :
              /\ TruthyMsg(thread[i].error)
              /\ shown[i][k] = Dialog(<<"Gemini AI Error: ">> \o thread[i].error[1])
        /\ ( /\ ChainOver(i) /\ TerminalPoll(polls[i][Len(polls[i])])
             /\ TruthyMsg(polls[i][Len(polls[i])].error) )
              => Cardinality(ErrorDialogs(i)) = 1

\* a failure was shown in its dialog after the chain had waited for it
C6_Witness ==
    \E i \in Inv :
        /\ ChainOver(i) /\ Len(polls[i]) >= 2
        /\ Cardinality(ErrorDialogs(i)) = 1 /\ thread[i].exchange.failed = FALSE

(***************************************************************************)
(* C7.  For both commands: when api_token resolves to absent or the        *)
(* selection precondition is violated, no AsyncGemini is constructed or    *)
(* started, no tick is scheduled and no request is sent; with api_token    *)
(* absent the error dialog is shown.                                       *)
(***************************************************************************)
C7_SetupFailureStopsEverything ==
    \A i \in Inv :
        (HandlerReturned(i) /\ (TokenAbsent \/ (NoEmptySelectionNow /\ EmptySelection))) =>
            /\ thread[i] = NoThread
            /\ polls[i] = <<>>
            /\ NothingScheduled(i)
            /\ ui.inv # i
            /\ commands[i] = <<>>
            /\ TokenAbsent => shown[i] = <<Dialog(MsgNoApiToken)>>

\* the instruct command was submitted without an api_token
C7_Witness ==
    \E i \in Inv :
        cmd[i] = "instruct" /\ stage[i] = "no_token" /\ shown[i] = <<Dialog(MsgNoApiToken)>>

(***************************************************************************)
(* C8.  With an api_token configured and the selection set empty or the    *)
(* primary selection empty, check_setup rejects the command (status        *)
(* message, no worker) if and only if no_empty_selection resolves to true. *)
(***************************************************************************)
C8_EmptySelectionGate ==
    \A i \in Inv :
        (HandlerReturned(i) /\ ~TokenAbsent /\ EmptySelection) =>
            /\ stage[i] = "no_selection" <=> NoEmptySelectionNow
            /\ stage[i] = "no_selection" =>
                 shown[i] = <<Status(MsgHighlight)>> /\ thread[i] = NoThread

\* an empty primary selection passed the gate because the view's override is false
C8_Witness ==
    \E i \in Inv :
        /\ stage[i] = "started" /\ EmptySelection
        /\ globalSettings.no_empty_selection = Some(TRUE)
        /\ viewSettings.no_empty_selection = Some(FALSE)

(***************************************************************************)
(* C9.  Whenever check_setup passes and it is not the case that there are  *)
(* zero selections with no_empty_selection true, the completion command    *)
(* starts exactly one worker on the first selection's text.  With zero     *)
(* selections and no_empty_selection false, sel()[0] raises IndexError.    *)
(***************************************************************************)
C9_CompletionStartsWorker ==
    \A i \in Inv :
        ( /\ cmd[i] = "completions" /\ HandlerReturned(i)
          /\ ~TokenAbsent /\ ~(NoEmptySelectionNow /\ EmptySelection)
          /\ ~(Len(sel) = 0 /\ NoEmptySelectionNow) )
            => stage[i] = "started" /\ thread[i].pc # "absent"

(***************************************************************************)
(* C10.  The worker's outcome on a parsed response is that of the ordered  *)
(* pipeline (a) error field, (b) blocked safety rating, (c) no candidates, *)
(* (d) finishReason of the first candidate, (e) no content parts, (f) no   *)
(* text, else success: the first step that fails decides, whatever the     *)
(* later fields hold, and without candidates content.parts is never read.  *)
(***************************************************************************)
\* the six steps on response r, each judged on its own fields alone:
\* whether it fails and the message it fails with
PipelineSteps(r) ==
    LET ratings == IF r.safetyRatings = None THEN <<>> ELSE r.safetyRatings[1]
        blocked == { k \in 1..Len(ratings) : ratings[k].blocked = Some(TRUE) }
        firstBlocked == CHOOSE k \in blocked : \A j \in blocked : k <= j
        hasCandidate == r.candidates # None /\ r.candidates[1] # <<>>
        first == r.candidates[1][1]
        reason == IF hasCandidate /\ first.finishReason # None
                  THEN first.finishReason[1] ELSE ""
        hasPart == hasCandidate /\ first.parts # None /\ first.parts[1] # <<>>
        tokens == IF r.totalTokenCount = None THEN 0 ELSE r.totalTokenCount[1]
    IN  << [fails |-> r.error # None /\ r.error[1] # [code |-> None, message |-> None],
            msg |-> IF r.error # None /\ r.error[1].message # None
                    THEN <<"API Error: ", r.error[1].message[1]>>
                    ELSE <<"API Error: ", "Unknown API error">>],
           [fails |-> blocked # {},
            msg |-> IF blocked # {} /\ ratings[firstBlocked].reason # None
                    THEN <<"Prompt blocked by safety filters: ", ratings[firstBlocked].reason[1]>>
                    ELSE <<"Prompt blocked by safety filters: ", "Unknown reason">>],
           [fails |-> ~hasCandidate, msg |-> MsgNoCandidates],
           [fails |-> reason \notin {"", "STOP"},
            msg |-> CASE reason = "MAX_TOKENS" -> MsgMaxTokens(tokens)
                      [] reason = "SAFETY" -> MsgSafety
                      [] reason = "RECITATION" -> MsgRecitation
                      [] OTHER -> <<"Gemini finished early with reason: ", reason>>],
           [fails |-> ~hasPart, msg |-> MsgNoParts],
           [fails |-> ~(hasPart /\ first.parts[1][1].text \notin {None, Some(<<>>)}),
            msg |-> MsgNoText] >>

Answered(i) ==
    /\ thread[i].pc = "done" /\ thread[i].requests = 1 /\ ~thread[i].exchange.failed

ResponseOf(i) == thread[i].exchange.response

\* the response carries no error object, or one without any key
NoApiError(r) == r.error = None \/ r.error[1] = [code |-> None, message |-> None]

RatingsOf(r) == IF r.safetyRatings = None THEN <<>> ELSE r.safetyRatings[1]

BlockedEntries(r) == { k \in 1..Len(RatingsOf(r)) : RatingsOf(r)[k].blocked = Some(TRUE) }

\* the response has a first candidate whose finishReason is reason
FirstCandidateHas(r, reason) ==
    /\ r.candidates # None /\ r.candidates[1] # <<>>
    /\ r.candidates[1][1].finishReason = Some(reason)

\* the fields of the response that the steps after the prompt feedback look up
CandidateFields == {"candidates", "finishReason", "usageMetadata", "content.parts", "text"}

(***************************************************************************)
(* C11.  A response with candidates[0].finishReason = "STOP" and a         *)
(* non-empty candidates[0].content.parts[0].text (and nothing in it that   *)
(* an earlier step rejects: no error object, no blocked rating) makes the  *)
(* worker end with running = false, error unset and result equal to        *)
(* exactly that text, whatever the later parts and candidates hold.        *)
(***************************************************************************)
C11_StopWithTextSucceeds ==
    \A i \in Inv :
        ( /\ Answered(i)
          /\ NoApiError(ResponseOf(i)) /\ BlockedEntries(ResponseOf(i)) = {}
          /\ FirstCandidateHas(ResponseOf(i), "STOP")
          /\ ResponseOf(i).candidates[1][1].parts # None
          /\ ResponseOf(i).candidates[1][1].parts[1] # <<>>
          /\ ResponseOf(i).candidates[1][1].parts[1][1].text \notin {None, Some(<<>>)} )
            => /\ ~thread[i].running
               /\ thread[i].error = None
               /\ thread[i].result = ResponseOf(i).candidates[1][1].parts[1][1].text

\* a worker succeeded on a STOP candidate of two parts: the result is the first
C11_Witness ==
    \E i \in Inv :
        /\ Answered(i) /\ FirstCandidateHas(ResponseOf(i), "STOP")
        /\ ResponseOf(i).candidates[1][1].parts # None
        /\ Len(ResponseOf(i).candidates[1][1].parts[1]) = 2
        /\ thread[i].result = Some(<<"X">>) /\ thread[i].error = None

(***************************************************************************)
(* C12.  As stated: for every entry of promptFeedback.safetyRatings with   *)
(* blocked = true, the worker ends with an error whose message contains    *)
(* that entry's reason ("Unknown reason" if it has none), with result      *)
(* unset and without reaching the candidates (stated for the responses     *)
(* without an error object).                                               *)
(***************************************************************************)
C12_EveryBlockedReasonReported ==
    \A i \in Inv :
        (Answered(i) /\ NoApiError(ResponseOf(i))) =>
            \A k \in BlockedEntries(ResponseOf(i)) :
                /\ thread[i].result = None
                /\ thread[i].error # None
                /\ thread[i].error[1][2] =
                     (IF RatingsOf(ResponseOf(i))[k].reason = None THEN "Unknown reason"
                      ELSE RatingsOf(ResponseOf(i))[k].reason[1])

(***************************************************************************)
(* C12, amended.  A response without an error object whose safetyRatings   *)
(* contains an entry with blocked = true makes the worker end with the     *)
(* error "Prompt blocked by safety filters: " followed by the reason of    *)
(* the first such entry ("Unknown reason" if that entry has none), with    *)
(* result unset; the candidates and finishReason are never looked up.      *)
(***************************************************************************)
C12_FirstBlockedReasonReported ==
    \A i \in Inv :
        (Answered(i) /\ NoApiError(ResponseOf(i)) /\ BlockedEntries(ResponseOf(i)) # {}) =>
            LET r == ResponseOf(i)
                first == CHOOSE k \in BlockedEntries(r) : \A j \in BlockedEntries(r) : k <= j
                reason == IF RatingsOf(r)[first].reason = None THEN "Unknown reason"
                          ELSE RatingsOf(r)[first].reason[1]
            IN  /\ ~thread[i].running
                /\ thread[i].result = None
                /\ thread[i].error = Some(<<"Prompt blocked by safety filters: ", reason>>)
                /\ validate_response(r).read \cap CandidateFields = {}

\* a worker failed on a response with two blocked ratings, the first without a
\* reason, although the response has a STOP candidate with text
C12_Witness ==
    \E i \in Inv :
        /\ Answered(i)
        /\ BlockedEntries(ResponseOf(i)) = {1, 2}
        /\ RatingsOf(ResponseOf(i))[1].reason = None
        /\ RatingsOf(ResponseOf(i))[2].reason = Some("HARM")
        /\ ResponseOf(i).candidates = Some(<<StopCandidate>>)
        /\ thread[i].error = Some(<<"Prompt blocked by safety filters: ", "Unknown reason">>)

(***************************************************************************)
(* C13.  A response whose first candidate has finishReason = "MAX_TOKENS"  *)
(* and usageMetadata.totalTokenCount = n, 0 when absent (and nothing in it *)
(* that an earlier step rejects), makes the worker end with an error whose *)
(* message contains n and advises raising max_tokens; result stays unset   *)
(* even if the candidate carries non-empty text.                           *)
(***************************************************************************)
C13_MaxTokensReported ==
    \A i \in Inv :
        ( /\ Answered(i)
          /\ NoApiError(ResponseOf(i)) /\ BlockedEntries(ResponseOf(i)) = {}
          /\ FirstCandidateHas(ResponseOf(i), "MAX_TOKENS") ) =>
            LET n == IF ResponseOf(i).totalTokenCount = None THEN 0
                     ELSE ResponseOf(i).totalTokenCount[1]
            IN  /\ ~thread[i].running
                /\ thread[i].result = None
                /\ thread[i].error =
                     Some(<<"Gemini finished early due to max tokens limit. Used ", ToString(n),
                            " tokens. Try increasing 'max_tokens' in settings.">>)

\* a MAX_TOKENS candidate with text and a token count of 250 ended in the error
C13_Witness ==
    \E i \in Inv :
        /\ Answered(i) /\ FirstCandidateHas(ResponseOf(i), "MAX_TOKENS")
        /\ ResponseOf(i).candidates[1][1].parts = Some(<<[text |-> Some(<<"X">>)]>>)
        /\ ResponseOf(i).totalTokenCount = Some(250)
        /\ thread[i].error # None /\ thread[i].error[1][2] = "250"
        /\ thread[i].result = None

(***************************************************************************)
(* C14.  Once the polling chain of an invocation has shown the timeout     *)
(* message, nothing of the invocation is scheduled or in progress on the   *)
(* UI thread, and whatever its worker does afterwards, the invocation      *)
(* shows no further message or dialog, runs no success callback and no     *)
(* mutation command; the worker's fields change only by the steps of its   *)
(* own run(), which goes on to store its result or error.                  *)
(***************************************************************************)
C14_LateCompletionDiscarded ==
    /\ [](\A i \in Inv :
            TimedOut(i) =>
                /\ NothingScheduled(i) /\ ui.inv # i
                /\ commands[i] = <<>>
                /\ ErrorDialogs(i) = {}
                /\ shown[i][Len(shown[i])] = Status(MsgTimeout(MaxSecondsNow)))
    /\ [][\A i \in Inv :
            TimedOut(i) =>
                /\ shown'[i] = shown[i] /\ polls'[i] = polls[i]
                /\ timer'[i] = timer[i] /\ commands'[i] = commands[i]
                /\ buffer' # buffer => \E j \in Inv : j # i /\ commands'[j] # commands[j]
                /\ thread'[i] # thread[i] =>
                     \/ thread'[i] = run_finally(thread[i])
                     \/ /\ thread[i].pc \in {"running", "waiting"}
                        /\ thread'[i].pc \in {"waiting", "finally"}
                        /\ thread'[i].running]_vars

\* a worker stored its result after its chain had timed out on it
C14_Witness ==
    \E i \in Inv :
        /\ TimedOut(i)
        /\ polls[i][Len(polls[i])].result = None /\ polls[i][Len(polls[i])].error = None
        /\ thread[i].pc = "done" /\ TruthyText(thread[i].result)

(***************************************************************************)
(* C15.  With several commands in flight, every invocation has its own     *)
(* worker and its own polling chain.  Each step changes the worker, the    *)
(* timers, the polls, the messages and the commands of one invocation      *)
(* only; chain i counts its own elapsed seconds 0, 1, 2, ...; what a tick  *)
(* of chain i read is what worker i held; and the outcome of invocation i  *)
(* is that of its own worker: the dialog shows worker i's error, the       *)
(* replace_text command carries worker i's region and result, the timeout  *)
(* comes after max_seconds + 2 ticks of chain i.                           *)
(***************************************************************************)
\* everything the model keeps for invocation i
InvocationState(i) == <<cmd[i], stage[i], thread[i], timer[i], shown[i], polls[i], commands[i]>>

\* poll record p of chain i agrees with worker i: a field it found set is the
\* one worker i holds, a stopped worker it found is worker i stopped (or worker
\* i before run() began), a running worker it found is worker i past its start
OwnPoll(i, p) ==
    /\ p.result # None => thread[i].result = p.result
    /\ p.error # None => thread[i].error = p.error
    /\ (p.read /\ ~p.running) =>
          \/ p.result = None /\ p.error = None
          \/ thread[i].pc = "done"
    /\ (p.read /\ p.running) => thread[i].pc \in {"running", "waiting", "finally", "done"}

C15_IndependentChains ==
    /\ [](\A i \in Inv :
            /\ \A k \in 1..Len(polls[i]) :
                 polls[i][k].seconds = k - 1 /\ OwnPoll(i, polls[i][k])
            /\ \A k \in ErrorDialogs(i) :
                 /\ thread[i].error # None
                 /\ shown[i][k].msg = <<"Gemini AI Error: ">> \o thread[i].error[1]
            /\ commands[i] # <<>> =>
                 /\ thread[i].result # None
                 /\ commands[i] = << [name |-> "replace_text",
                                      region |-> <<thread[i].region.a, thread[i].region.b>>,
                                      instruction |-> <<>>,
                                      results |-> thread[i].result[1]] >>
            /\ TimedOut(i) => Len(polls[i]) = MaxSecondsNow + 2)
    /\ [][\A i, j \in Inv :
            (i # j /\ InvocationState(i)' # InvocationState(i))
                => InvocationState(j)' = InvocationState(j)]_vars

\* two chains poll at the same time at different elapsed seconds: the first
\* worker has failed and is not yet observed, the second is still waiting
C15_Witness ==
    \E i, j \in Inv :
        /\ i # j
        /\ timer[i].tick = Some(2) /\ timer[j].tick = Some(1)
        /\ thread[i].pc = "done" /\ thread[i].error # None
        /\ thread[j].pc = "waiting"

(***************************************************************************)
(* C16.  For a completion command whose chain reached the success branch:  *)
(* at most one replace_text command is ever dispatched and, once the       *)
(* scheduled one has run, exactly one; its region is the [begin, end)      *)
(* offsets of the region the worker was built with, which is the primary   *)
(* selection at the moment the command was invoked and never changes       *)
(* afterwards; its text is exactly the worker's result, the instruction    *)
(* string of a completion being empty.                                     *)
(***************************************************************************)
\* the success branch of chain i has scheduled on_api_success, and it has run
SuccessHandled(i) ==
    \E k \in 1..Len(shown[i]) :
        shown[i][k].channel = "status"
            /\ shown[i][k].msg \in { <<"Gemini AI completion inserted.">>,
                                     <<"Gemini AI instruction opened in new tab.">> }

C16_ReplaceOverCapturedSelection ==
    /\ [](\A i \in Inv :
            cmd[i] = "completions" =>
                /\ Len(commands[i]) <= 1
                /\ timer[i].command => commands[i] = <<>>
                /\ (SuccessHandled(i) /\ ~timer[i].command) => Len(commands[i]) = 1
                /\ commands[i] # <<>> =>
                     LET a == thread[i].region.a
                         b == thread[i].region.b
                     IN  /\ thread[i].instruction = <<>>
                         /\ thread[i].result # None
                         /\ commands[i][1] =
                              [name |-> "replace_text",
                               region |-> <<IF a <= b THEN a ELSE b, IF a <= b THEN b ELSE a>>,
                               instruction |-> <<>>,
                               results |-> thread[i].result[1]])
    /\ [][\A i \in Inv :
            /\ (thread[i].pc = "absent" /\ thread'[i].pc # "absent" /\ cmd'[i] = "completions")
                  => thread'[i].region = sel[1]
            /\ thread[i].pc # "absent" => thread'[i].region = thread[i].region]_vars

\* a replace_text command ran over the captured offsets after the user had
\* moved the selection
C16_Witness ==
    \E i \in Inv :
        /\ cmd[i] = "completions" /\ Len(commands[i]) = 1
        /\ sel = MovedSelection /\ thread[i].region = Region(0, 2)
        /\ commands[i][1].region = <<0, 2>> /\ commands[i][1].results = <<"X">>
        /\ buffer = <<"X", "c">>

(***************************************************************************)
(* C17.  For an instruct command whose chain reached the success branch:   *)
(* at most one open_new_tab_with_content command is dispatched and, once   *)
(* the scheduled one has run, exactly one; its results argument is the     *)
(* worker's result verbatim; and when the command was submitted with no    *)
(* selection, its instruction block contains the buffer content and the    *)
(* user's instruction literally.                                           *)
(***************************************************************************)
\* sub occurs in text as a contiguous run
Contains(text, sub) ==
    \E p \in 0..(Len(text) - Len(sub)) : SubSeq(text, p + 1, p + Len(sub)) = sub

C17_NewTabCarriesInstructionAndResult ==
    \A i \in Inv :
        cmd[i] = "instruct" =>
            /\ Len(commands[i]) <= 1
            /\ timer[i].command => commands[i] = <<>>
            /\ (SuccessHandled(i) /\ ~timer[i].command) => Len(commands[i]) = 1
            /\ commands[i] # <<>> =>
                 /\ commands[i][1].name = "open_new_tab_with_content"
                 /\ thread[i].result # None
                 /\ commands[i][1].results = thread[i].result[1]
                 /\ (Len(sel) = 0 /\ buffer = <<"a", "b", "c">>) =>
                      /\ Contains(commands[i][1].instruction, <<"a", "b", "c">>)
                      /\ Contains(commands[i][1].instruction, <<"i">>)

\* an instruct command submitted with no selection opened its tab
C17_Witness ==
    \E i \in Inv :
        /\ cmd[i] = "instruct" /\ Len(sel) = 0
        /\ Len(commands[i]) = 1
        /\ commands[i][1].results = <<"X">>
        /\ Contains(commands[i][1].instruction, <<"a", "b", "c">>)

(***************************************************************************)
(* C18.  Cancelling the input panel of the instruct command shows the      *)
(* status message "Input canceled." and nothing else: no dialog of         *)
(* check_setup, no worker, no tick, no callback, no mutation command; the  *)
(* step itself leaves the buffer, the selection, the settings and every    *)
(* other invocation as they were.                                          *)
(***************************************************************************)
C18_CancelHasNoSideEffects ==
    /\ [](\A i \in Inv :
            stage[i] = "cancelled" =>
                /\ shown[i] = <<[channel |-> "status", msg |-> <<"Input canceled.">>]>>
                /\ thread[i] = NoThread
                /\ polls[i] = <<>>
                /\ NothingScheduled(i) /\ ui.inv # i
                /\ commands[i] = <<>>)
    /\ [][\A i \in Inv :
            (stage[i] = "panel" /\ stage'[i] = "cancelled") =>
                /\ buffer' = buffer /\ sel' = sel
                /\ globalSettings' = globalSettings /\ viewSettings' = viewSettings
                /\ ui' = ui /\ invoked' = invoked
                /\ \A j \in Inv : j # i => InvocationState(j)' = InvocationState(j)]_vars

\* the panel was cancelled with no api_token configured: check_setup would have
\* shown its dialog
C18_Witness ==
    \E i \in Inv :
        /\ stage[i] = "cancelled" /\ TokenAbsent
        /\ shown[i] = <<Status(MsgCanceled)>>

(***************************************************************************)
(* C19.  Nothing is retried.  There are never more workers than command    *)
(* invocations; a worker goes through run() once, forwards, and sends at   *)
(* most one request; and once a chain has ended with the error dialog, the *)
(* timeout message or the generic failure message, nothing is scheduled    *)
(* for its invocation and no later step polls again or rebuilds or         *)
(* restarts its worker.                                                    *)
(***************************************************************************)
\* how far the thread of an invocation has got
PcRank(pc) ==
    CASE pc = "absent" -> 0 [] pc = "started" -> 1 [] pc = "running" -> 2
      [] pc = "waiting" -> 3 [] pc = "finally" -> 4 [] pc = "done" -> 5

\* the chain of invocation i has ended in one of its three failure branches
ChainFailed(i) ==
    /\ ChainOver(i)
    /\ \/ ErrorDialogs(i) # {}
       \/ TimedOut(i)
       \/ /\ shown[i] # <<>>
          /\ shown[i][Len(shown[i])] =
               [channel |-> "status",
                msg |-> <<"Something is wrong with Gemini - aborting (no result)">>]

C19_NothingRetried ==
    /\ [](/\ Cardinality({ i \in Inv : thread[i].pc # "absent" }) <= invoked
          /\ \A i \in Inv :
                /\ thread[i].requests <= 1
                /\ thread[i].pc \in {"absent", "started", "running"} => thread[i].requests = 0
                /\ ChainFailed(i) => NothingScheduled(i) /\ commands[i] = <<>>)
    /\ [][\A i \in Inv :
            /\ PcRank(thread'[i].pc) >= PcRank(thread[i].pc)
            /\ thread'[i].requests >= thread[i].requests
            /\ ChainFailed(i) =>
                 /\ polls'[i] = polls[i] /\ timer'[i] = timer[i]
                 /\ shown'[i] = shown[i] /\ commands'[i] = commands[i]]_vars

\* a chain has ended with the error dialog of an API error: one request was
\* sent, the worker has stopped and nothing is scheduled
C19_Witness ==
    \E i \in Inv :
        /\ ChainFailed(i) /\ ErrorDialogs(i) # {}
        /\ thread[i].pc = "done" /\ thread[i].requests = 1
        /\ thread[i].exchange = Delivered(QuotaResponse)
        /\ ui = Idle

(***************************************************************************)
(* C20.  For every key, every buffer-tier value V, global-tier value G and *)
(* caller default D: get_setting returns V when the buffer tier holds a    *)
(* value that is not None, otherwise G when the global tier defines the    *)
(* key, otherwise D; and the max_seconds every "thinking" message shows is *)
(* the value so resolved.                                                  *)
(***************************************************************************)
\* the defaults a caller may pass for a key
DefaultsOf(key) ==
    CASE key = "api_token" -> {"fallback"}
      [] key = "no_empty_selection" -> {TRUE, FALSE}
      [] key = "max_seconds" -> {DefaultMaxSeconds, 0}

C20_ViewThenGlobalThenDefault ==
    /\ \A key \in SettingKeys : \A D \in DefaultsOf(key) :
          get_setting(key, D) =
             (CASE viewSettings[key] # None -> viewSettings[key][1]
                [] viewSettings[key] = None /\ globalSettings[key] # None -> globalSettings[key][1]
                [] OTHER -> D)
    /\ \A i \in Inv : \A k \in 1..Len(shown[i]) :
          shown[i][k].msg[1] = "Gemini is thinking, one moment... (" =>
             shown[i][k].msg[4] =
                ToString(CASE viewSettings.max_seconds # None -> viewSettings.max_seconds[1]
                           [] viewSettings.max_seconds = None /\ globalSettings.max_seconds # None
                                -> globalSettings.max_seconds[1]
                           [] OTHER -> 60)

\* a chain polls with the view's max_seconds = 1 over the global 0: it shows
\* "thinking (1/1s)", which the global value alone would not allow
C20_Witness ==
    \E i \in Inv :
        /\ viewSettings.max_seconds = Some(1) /\ globalSettings.max_seconds = Some(0)
        /\ Len(shown[i]) >= 2
        /\ shown[i][2] = Status(MsgThinking(1, 1))

\* the request a worker has sent carries the payload's model in its path, the
\* default model when the payload has none, and in its body the payload without
\* the model key
SentAsClaimed(t) ==
    /\ t.sent[1].body.model = None
    /\ t.sent[1].body.contents = t.data.contents
    /\ t.sent[1].body.generationConfig = t.data.generationConfig
    /\ t.sent[1].path[2] = (IF t.data.model = None THEN "gemini-2.5-flash" ELSE t.data.model[1])

\* C21: the body of every request sent has no model field, the model (or the
\* default gemini-2.5-flash when the payload has none) is in the URL path, the
\* rest of the payload is in the body, and no step changes the payload the
\* worker stores: building the body removes the model from a copy.
C21_ModelOnlyInPath ==
    /\ [](\A i \in Inv : thread[i].sent # None => SentAsClaimed(thread[i]))
    /\ [][\A i \in Inv : thread[i].pc # "absent" => thread'[i].data = thread[i].data]_vars

\* a request has been sent for a payload that names a model other than the default
C21_Witness ==
    \E i \in Inv :
        /\ thread[i].sent # None
        /\ thread[i].data.model = Some("gemini-pro")
        /\ thread[i].sent[1].path[2] = "gemini-pro"
        /\ thread[i].sent[1].body.model = None

\* the level the logger must have once debug_logging has been applied
LevelFor(debug_logging) == IF debug_logging = Some(TRUE) THEN "DEBUG" ELSE "CRITICAL"

\* C22: whatever calls and edits of debug_logging came before, a call of
\* update_logging_level leaves the logger at DEBUG if debug_logging is now true
\* and at CRITICAL otherwise (false or undefined); and where the level already
\* is the one for the current debug_logging, one more call leaves it as it is.
C22_LevelFollowsLastCall ==
    /\ [][logLevel' # logLevel => logLevel' = LevelFor(debugLogging)]_vars
    /\ [](logLevel = LevelFor(debugLogging) => update_logging_level(debugLogging) = logLevel)

\* a call has applied an undefined debug_logging: the logger is at CRITICAL
C22_Witness == logLevel = "CRITICAL" /\ debugLogging = None

\* C27: a worker that resolves api_token while no tier defines it (the token was
\* removed after check_setup passed) stores the error "API token is missing." and
\* no result without sending anything; and a worker that has ended without a
\* request has running false, that error and no result.
C27_NoTokenNoRequest ==
    /\ [][\A i \in Inv :
            thread[i].pc = "running" /\ thread'[i].pc # "running" /\ TokenAbsent
            => /\ thread'[i].error = Some(<<"API token is missing.">>)
               /\ thread'[i].result = None
               /\ thread'[i].requests = 0
               /\ thread'[i].sent = None]_vars
    /\ [](\A i \in Inv :
            thread[i].pc = "done" /\ thread[i].requests = 0
            => /\ ~thread[i].running
               /\ thread[i].error = Some(<<"API token is missing.">>)
               /\ thread[i].result = None)

\* the token was removed from every tier before the worker read it, and the
\* worker has ended without a request
C27_Witness ==
    \E i \in Inv :
        /\ TokenAbsent
        /\ thread[i].pc = "done"
        /\ thread[i].requests = 0
        /\ thread[i].error = Some(<<"API token is missing.">>)

\* the response passes the error, prompt-feedback and candidates checks
ReachesFinishReason(r) ==
    /\ NoApiError(r) /\ BlockedEntries(r) = {}
    /\ r.candidates # None /\ r.candidates[1] # <<>>

\* what a worker ends with when the content of candidate c is extracted, as a
\* pair <<result, error>>: the text of the first part, or the error of a
\* candidate without parts or without text
ContentOutcome(c) ==
    IF c.parts = None \/ c.parts = Some(<<>>)
    THEN <<None, Some(<<"No content parts found in AI response. This could be due to an empty model response even after successful generation.">>)>>
    ELSE IF c.parts[1][1].text = None \/ c.parts[1][1].text = Some(<<>>)
    THEN <<None, Some(<<"No text content found in AI response part.">>)>>
    ELSE <<Some(c.parts[1][1].text[1]), None>>

\* C28: of a response that passes the error, prompt-feedback and candidates
\* checks, a first candidate whose finishReason is absent or empty ends the
\* worker exactly as the same candidate with "STOP" does, in the outcome of the
\* content extraction; and a non-empty reason other than STOP, MAX_TOKENS,
\* SAFETY and RECITATION ends it with the error "Gemini finished early with
\* reason: " followed by the reason itself and with no result.
C28_AbsentReasonIsStop ==
    \A i \in Inv :
        (Answered(i) /\ ReachesFinishReason(ResponseOf(i))) =>
            LET c == ResponseOf(i).candidates[1][1]
            IN  /\ c.finishReason \in {None, Some(""), Some("STOP")}
                   => <<thread[i].result, thread[i].error>> = ContentOutcome(c)
                /\ ( /\ c.finishReason # None
                     /\ c.finishReason[1] \notin {"", "STOP", "MAX_TOKENS", "SAFETY", "RECITATION"} )
                   => /\ thread[i].result = None
                      /\ thread[i].error =
                           Some(<<"Gemini finished early with reason: ", c.finishReason[1]>>)

\* a candidate without finishReason and with text has ended in the result
C28_Witness ==
    \E i \in Inv :
        /\ Answered(i) /\ ReachesFinishReason(ResponseOf(i))
        /\ ResponseOf(i).candidates[1][1].finishReason = None
        /\ thread[i].result = Some(<<"X">>)
        /\ thread[i].error = None

\* C23: with max_seconds constant at M >= 0, handle_thread is called at most
\* M + 2 times for an invocation, whatever its worker does (it may never
\* answer); once a call has timed out or has read running = false no further
\* call is scheduled; and every chain that has begun reaches, under fair
\* scheduling of the UI thread, the state where no call of it is in progress
\* and no callback of it is held by the timer.
C23_ChainTerminates ==
    /\ [](\A i \in Inv :
            /\ Len(polls[i]) <= MaxSecondsNow + 2
            /\ ( /\ polls[i] # <<>> /\ ui.inv # i
                 /\ \/ ~polls[i][Len(polls[i])].read
                    \/ ~polls[i][Len(polls[i])].running )
               => timer[i].tick = None)
    /\ \A i \in Inv :
         (polls[i] # <<>>) ~> (ui.inv # i /\ NothingScheduled(i))

\* a chain over a worker that never answered made M + 2 calls for M = MaxSeconds
\* and is over
C23_Witness ==
    \E i \in Inv :
        /\ MaxSecondsNow = MaxSeconds
        /\ Len(polls[i]) = MaxSeconds + 2
        /\ thread[i].pc = "waiting"
        /\ ui.inv # i /\ NothingScheduled(i)

\* the text between offsets 0 and the size of the buffer
WholeBuffer == buffer

\* the text the primary selection covers
SelectedText ==
    LET lo == IF sel[1].a <= sel[1].b THEN sel[1].a ELSE sel[1].b
        hi == IF sel[1].a <= sel[1].b THEN sel[1].b ELSE sel[1].a
    IN  [k \in 1..(hi - lo) |-> buffer[lo + k]]

\* the worker of invocation i was built, in this step, for an instruction over content
BuiltOver(t, content) ==
    /\ t.pc = "started"
    /\ t.instruction =
         <<"Python", " Code:\n\n[fence]", "python", "\n">> \o content
             \o <<"\n[fence]\n\nInstruction:\n\n", "i">>

\* C24: when the instruction is submitted with a token configured: with no
\* selection or an empty primary selection and no_empty_selection true, the
\* handler ends in check_setup and no worker is built (the whole-file fallback
\* is never taken); with no_empty_selection false the worker is built over the
\* whole buffer; with a non-empty primary selection it is built over the
\* selected text.
C24_GateBeforeFallback ==
    [][\A i \in Inv :
         (stage[i] = "panel" /\ stage'[i] \notin {"panel", "cancelled"} /\ ~TokenAbsent) =>
            IF EmptySelection /\ NoEmptySelectionNow
            THEN stage'[i] = "no_selection" /\ thread'[i] = NoThread
            ELSE IF EmptySelection
            THEN BuiltOver(thread'[i], WholeBuffer)
            ELSE BuiltOver(thread'[i], SelectedText)]_vars

\* an instruction over an empty primary selection, no_empty_selection false, was
\* sent over the whole buffer
C24_Witness ==
    \E i \in Inv :
        /\ cmd[i] = "instruct" /\ stage[i] = "started"
        /\ sel = <<Region(1, 1)>> /\ ~NoEmptySelectionNow
        /\ Contains(thread[i].instruction, <<"\n", "a", "b", "c", "\n[fence]\n\nInstruction:\n\n">>)

\* invocations a and b are completions started on the overlapping regions
\* [0, 2) and [1, 3), and the replace_text command of each has run
BothReplaced(a, b) ==
    /\ a # b
    /\ cmd[a] = "completions" /\ cmd[b] = "completions"
    /\ thread[a].region = Region(0, 2) /\ thread[b].region = Region(3, 1)
    /\ Len(commands[a]) = 1 /\ Len(commands[b]) = 1

\* the buffer with the text from offset lo up to hi, both cut at the size of the
\* buffer, replaced by "X"
ReplacedByX(text, lo, hi) ==
    LET n == Len(text)
        l == IF lo <= n THEN lo ELSE n
        h == IF hi <= n THEN hi ELSE n
    IN  [k \in 1..(l + 1 + n - h) |->
            IF k <= l THEN text[k] ELSE IF k = l + 1 THEN "X" ELSE text[h + k - l - 1]]

\* C25: nothing keeps two completions on overlapping regions from both
\* succeeding; the replace_text command of each carries the offsets its worker
\* captured at invocation and is applied to the buffer as it then is; so once
\* both have run the buffer "abc" is "XX" when the command for [0, 2) ran first
\* (the command for [1, 3) then met a shorter buffer) and "X" when it ran second.
C25_RaceOnOverlap ==
    /\ [][\A i \in Inv :
            Len(commands'[i]) = Len(commands[i]) + 1
            => /\ commands'[i][1].region
                    = <<begin(thread[i].region), end(thread[i].region)>>
               /\ buffer' = ReplacedByX(buffer, commands'[i][1].region[1],
                                        commands'[i][1].region[2])]_vars
    /\ [](\A a, b \in Inv :
            BothReplaced(a, b) => buffer \in { <<"X", "X">>, <<"X">> })

\* both commands have run, and the one for [1, 3) ran on the buffer that the one
\* for [0, 2) had already shortened
C25_Witness ==
    \E a, b \in Inv : BothReplaced(a, b) /\ buffer = <<"X", "X">>

\* the step changes what the UI thread keeps for invocation i: its polls, its
\* timer callbacks, its messages, its mutation commands
UiStep(i) ==
    \/ polls'[i] # polls[i] \/ timer'[i] # timer[i]
    \/ shown'[i] # shown[i] \/ commands'[i] # commands[i]

\* C26: a step of a constructed worker writes running, result and error (and
\* its own position in run()) and nothing else: region, instruction and payload
\* of the worker, the buffer, the selection and everything the UI thread keeps
\* stay as they are.  A step of the poller or of a success handler leaves every
\* field of the worker as it is.
C26_SingleWriter ==
    [][\A i \in Inv :
         thread[i].pc # "absent" =>
            /\ thread'[i].region = thread[i].region
            /\ thread'[i].instruction = thread[i].instruction
            /\ thread'[i].data = thread[i].data
            /\ thread'[i] # thread[i] =>
                 /\ buffer' = buffer /\ sel' = sel
                 /\ ~UiStep(i) /\ ui' = ui
            /\ (UiStep(i) \/ ui' # ui \/ buffer' # buffer) => thread'[i] = thread[i]]_vars

\* a worker has stored its result, was polled, and its replace_text command has
\* changed the buffer, the worker still holding the region and the result
C26_Witness ==
    \E i \in Inv :
        /\ thread[i].pc = "done" /\ thread[i].result = Some(<<"X">>)
        /\ thread[i].region = Region(0, 2)
        /\ Len(commands[i]) = 1 /\ buffer = <<"X", "c">>

\* the handle_thread calls of invocation i that were made with seconds > max_seconds
LatePolls(i) == { k \in 1..Len(polls[i]) : polls[i][k].seconds > MaxSecondsNow }

\* C30: a handle_thread call made with seconds > max_seconds takes the timeout
\* branch whatever the worker holds at that moment, a stored result or error
\* included: it does not look at the worker, it is the last call of its chain,
\* the timeout message is the last thing the invocation shows, and no success
\* callback, mutation command or error dialog follows.  What a worker stored
\* after the last call that found it running is neither applied nor reported.
C30_TimeoutFirst ==
    \A i \in Inv :
        \A k \in LatePolls(i) :
            /\ ~polls[i][k].read
            /\ k = Len(polls[i])
            /\ shown[i] # <<>>
            /\ shown[i][Len(shown[i])] =
                 Status(<<"Gemini ran out of time! ", ToString(MaxSecondsNow), "s">>)
            /\ timer[i] = [tick |-> None, callback |-> FALSE, command |-> FALSE]
            /\ commands[i] = <<>>
            /\ \A m \in 1..Len(shown[i]) : shown[i][m].channel # "dialog"

\* the chain timed out on a tick at which the worker had already stored its
\* result; the result was not applied
C30_Witness ==
    \E i \in Inv :
        /\ LatePolls(i) # {}
        /\ polls[i][Len(polls[i])].result = Some(<<"X">>)
        /\ thread[i].pc = "done"
        /\ commands[i] = <<>> /\ buffer = <<"a", "b", "c">>

\* the positions in the calls made on the tab of invocation i at which op was called
CallsOf(i, op) == { k \in 1..Len(tabs[i].events) : tabs[i].events[k].op = op }

\* the callbacks of the tab of invocation i that the timer still holds for op
HeldFor(i, op) == { c \in tabs[i].pending : c.call.op = op }

\* C29: the new-tab command first creates the view, marks it scratch, names it
\* "Gemini Results" and assigns the Markdown syntax; the text "### User:\n\n"
\* + instruction + "\n\n---\n\n### Results:\n\n" + results is appended by one
\* call, made after all of that; the cursor is moved to the beginning only
\* after the append; and the content is appended exactly once: the append is
\* either still held by the timer or has been made, never both, never twice.
C29_AppendAfterCreateBeforeMove ==
    \A i \in Inv :
        tabs[i].events # <<>> =>
            /\ Len(commands[i]) = 1
            /\ Len(tabs[i].events) >= 4
            /\ tabs[i].events[1].op = "new_file"
            /\ tabs[i].events[2] = [op |-> "set_scratch", arg |-> <<"True">>]
            /\ tabs[i].events[3] = [op |-> "set_name", arg |-> <<"Gemini Results">>]
            /\ tabs[i].events[4] =
                 [op |-> "assign_syntax", arg |-> <<"Packages/Markdown/Markdown.sublime-syntax">>]
            /\ Cardinality(CallsOf(i, "append")) + Cardinality(HeldFor(i, "append")) = 1
            /\ Cardinality(CallsOf(i, "move_to")) + Cardinality(HeldFor(i, "move_to")) = 1
            /\ \A k \in CallsOf(i, "append") :
                 /\ k > 4
                 /\ tabs[i].events[k].arg =
                      <<"### User:\n\n">> \o commands[i][1].instruction
                          \o <<"\n\n---\n\n### Results:\n\n">> \o commands[i][1].results
            /\ \A m \in CallsOf(i, "move_to") :
                 /\ tabs[i].events[m].arg = <<"bof">>
                 /\ \E k \in CallsOf(i, "append") : k < m

\* both callbacks of a new tab have run: the append, then the move to the beginning
C29_Witness ==
    \E i \in Inv :
        /\ tabs[i].pending = {}
        /\ Len(tabs[i].events) = 7
        /\ tabs[i].events[6].op = "append"
        /\ tabs[i].events[7].op = "move_to"


====
